---------------------------- MODULE Spec2Model ----------------------------
(***************************************************************************)
(* The world subsystem of the voxel game: block catalog, chunk, terrain    *)
(* generator, chunk store and the World cache (src/src/world/chunk.rs,     *)
(* src/src/world/block.rs), the handlers of the game that drive it         *)
(* (src/src/main.rs) and the chunk mesh builder and mesh cache of the      *)
(* renderer (src/src/renderer/renderer.rs).                                *)
(*                                                                         *)
(* Conventions.                                                            *)
(*  - A block is written as its enum discriminant (`BlockType as u16`).    *)
(*  - A chunk's voxel vector is followed at the flat indices in Voxels     *)
(*    (the columns and heights the operations of the model address); the   *)
(*    index arithmetic keeps CHUNK_SIZE = 16 and WORLD_HEIGHT = 256.       *)
(*  - f64 values are fixed-point thousandths.                              *)
(*  - The storage root is one directory: `files` are its chunk files,      *)
(*    `meta` its world_meta.json.                                          *)
(***************************************************************************)
EXTENDS Integers, Sequences, FiniteSets, TLC

VARIABLES
    chunks,        \* World.chunks: resident chunks, keyed by <<cx, cz>>
    dirty_chunks,  \* World.dirty_chunks
    seed,          \* World.seed
    world_dir,     \* World.world_dir: "None" or "Some"
    files,         \* storage: chunks/chunk_{x}_{z}.bin, keyed by <<x, z>>
    meta,          \* storage: world_meta.json
    last,          \* the operation that produced this state, and its result
    calc,          \* the last evaluation of a pure function (SpecCalc)
    chunk_meshes   \* Renderer.chunk_meshes: the coordinates with a cached mesh

vars == <<chunks, dirty_chunks, seed, world_dir, files, meta, last, calc, chunk_meshes>>

---------------------------------------------------------------------------
(* Program constants *)

CHUNK_SIZE == 16
WORLD_HEIGHT == 256
SEA_LEVEL == 63

Air == 0
CaveAir == 1
VoidAir == 2
GrassBlock == 3
Dirt == 4
Sand == 11
Stone == 14
Deepslate == 18
CoalOre == 81
DeepslateCoalOre == 82
IronOre == 83
DeepslateIronOre == 84
GoldOre == 87
DeepslateGoldOre == 88
DiamondOre == 95
DeepslateDiamondOre == 96
Bedrock == 236
Water == 237
Chest == 241

\* The variants of BlockType in declaration order, each by its discriminant.
BlockTypeVariants ==
    <<0, 1, 2, 3, 4, 5, 6, 7, 8, 9, 10, 11, 12, 13, 14, 15, 16, 17, 18, 19,
      20, 21, 81, 82, 83, 84, 85, 86, 87, 88, 89, 90, 91, 92, 93, 94, 95, 96,
      100, 101, 102, 106, 109, 112, 115, 118, 119, 120, 121, 122, 123, 126,
      134, 135, 136, 182, 183, 216, 217, 222, 235, 236, 237, 238, 239, 240,
      241>>

BlockType == {BlockTypeVariants[i] : i \in 1..Len(BlockTypeVariants)}

\* The arms of the match of BlockType::from_id, each as <<literal, index of
\* the variant it names in the declaration>>
FromIdArms ==
    <<<<0, 0>>, <<1, 1>>, <<2, 2>>, <<3, 3>>, <<4, 4>>, <<5, 5>>, <<6, 6>>,
      <<7, 7>>, <<8, 8>>, <<9, 9>>, <<10, 10>>, <<11, 11>>, <<12, 12>>,
      <<13, 13>>, <<14, 14>>, <<15, 15>>, <<16, 16>>, <<17, 17>>, <<18, 18>>,
      <<19, 19>>, <<20, 20>>, <<21, 21>>, <<81, 22>>, <<82, 23>>, <<83, 24>>,
      <<84, 25>>, <<85, 26>>, <<86, 27>>, <<87, 28>>, <<88, 29>>, <<89, 30>>,
      <<90, 31>>, <<91, 32>>, <<92, 33>>, <<93, 34>>, <<94, 35>>, <<95, 36>>,
      <<96, 37>>, <<100, 38>>, <<101, 39>>, <<102, 40>>, <<106, 41>>,
      <<109, 42>>, <<112, 43>>, <<115, 44>>, <<118, 45>>, <<119, 46>>,
      <<120, 47>>, <<121, 48>>, <<122, 49>>, <<123, 50>>, <<126, 51>>,
      <<134, 52>>, <<135, 53>>, <<136, 54>>, <<182, 55>>, <<183, 56>>,
      <<216, 57>>, <<217, 58>>, <<222, 59>>, <<235, 60>>, <<236, 61>>,
      <<237, 62>>, <<238, 63>>, <<239, 64>>, <<240, 65>>, <<241, 66>>>>

\* Mutant of from_id: no `_ => Air` arm, the id is taken as it comes.
FromIdNoDefault(id) == id

\* BlockType::from_id: the variant of the first arm whose literal is id, the
\* `_` arm (Air) when there is none
FromId(id) ==
    IF \E k \in 1..Len(FromIdArms) : FromIdArms[k][1] = id
    THEN LET k == CHOOSE k \in 1..Len(FromIdArms) :
                    /\ FromIdArms[k][1] = id
                    /\ \A j \in 1..(k - 1) : FromIdArms[j][1] # id
         IN  BlockTypeVariants[FromIdArms[k][2] + 1]
    ELSE Air

\* `block as u16`: the discriminant, which is how the model writes a block
AsU16(block) == block

U16_MAX == 65535

---------------------------------------------------------------------------
(* Bounds of the model *)

\* SpecCalc evaluates from_id on 0..MaxId and on U16_MAX.
MaxId == 300

\* The seeds of the model (a u32 in the program): the one of Spec, and the
\* ones World::new is given or draws in SpecSeed.
WorldSeed == 42
Seeds == {7, 42}

\* SpecCalc evaluates the coordinate mapping on -MaxCoord..MaxCoord and on
\* the two ends of i32.
MaxCoord == 100

I32_MIN == -2147483647 - 1
I32_MAX == 2147483647

\* SpecCalc computes the height of a column for noise values of the
\* normalised range 0..1000 (thousandths) and for values as far out of it
\* as MaxNoise.
MaxNoise == 4000

\* SpecCalc calls get_block and set_block with local coordinates up to
\* MaxLocal (they are usize: never negative).
MaxLocal == 300

\* Chunk coordinates, world coordinates and blocks the operations are
\* called with.
ChunkXs == {-1, 0}
ChunkZs == {0}
Coords == ChunkXs \X ChunkZs
WorldPositions == {<<-1, 255, 0>>, <<0, 255, 0>>, <<0, -1, 0>>, <<-1, 256, 0>>}
EditBlocks == {Air, Stone}

\* SpecGame: settings.graphics.render_distance and the chunks the camera
\* is in when a frame is updated.
RenderDistance == 1
PlayerChunks == {<<0, 0>>, <<0, 2>>}

\* The chunk files the storage root has a place for: those of Coords and of
\* every chunk within reach of the frame update.
PathRange == (-(RenderDistance + 1))..(RenderDistance + 1)
Paths == Coords \cup (PathRange \X PathRange)

\* The voxels of a chunk the model follows.
TrackedX == {0, 15}
TrackedY == {0, 70, 255}
TrackedZ == {0}

---------------------------------------------------------------------------
(* Chunk (chunk.rs 11-40) *)

\* Mutant of the index: the layers of one z plane counted as one.
BlockIndexFlatPlane(x, y, z) == x + y * CHUNK_SIZE + z * CHUNK_SIZE

BlockIndex(x, y, z) == x + y * CHUNK_SIZE + z * CHUNK_SIZE * WORLD_HEIGHT

Voxels == {BlockIndex(x, y, z) : x \in TrackedX, y \in TrackedY, z \in TrackedZ}

\* Chunk::new
ChunkNew(x, z) == [x |-> x, z |-> z, blocks |-> [i \in Voxels |-> Air]]

\* Chunk::get_block
ChunkGetBlock(chunk, x, y, z) ==
    IF x >= CHUNK_SIZE \/ y >= WORLD_HEIGHT \/ z >= CHUNK_SIZE
    THEN Air
    ELSE chunk.blocks[BlockIndex(x, y, z)]

\* Mutant of set_block: an x or y past the end is clamped to the last
\* column or layer instead of being refused.
ChunkSetBlockClamped(chunk, x, y, z, block) ==
    LET cx == IF x >= CHUNK_SIZE THEN CHUNK_SIZE - 1 ELSE x
        cy == IF y >= WORLD_HEIGHT THEN WORLD_HEIGHT - 1 ELSE y
    IN  IF z >= CHUNK_SIZE
        THEN chunk
        ELSE [chunk EXCEPT !.blocks[BlockIndex(cx, cy, z)] = block]

\* Chunk::set_block
ChunkSetBlock(chunk, x, y, z, block) ==
    IF x >= CHUNK_SIZE \/ y >= WORLD_HEIGHT \/ z >= CHUNK_SIZE
    THEN chunk
    ELSE [chunk EXCEPT !.blocks[BlockIndex(x, y, z)] = block]

\* The indexing `self.blocks[..]` of get_block and set_block panics when the
\* index is not below the length of the vector (the vector of a chunk read
\* from a file has the length the file gives it).
IndexPanics(chunk, x, y, z) ==
    /\ ~(x >= CHUNK_SIZE \/ y >= WORLD_HEIGHT \/ z >= CHUNK_SIZE)
    /\ BlockIndex(x, y, z) \notin DOMAIN chunk.blocks

---------------------------------------------------------------------------
(* Terrain generator (chunk.rs 108-262) *)

Min(a, b) == IF a < b THEN a ELSE b
Max(a, b) == IF a > b THEN a ELSE b

\* usize::saturating_sub
SaturatingSub(a, b) == IF a > b THEN a - b ELSE 0

\* Perlin::new(seed).get(point): the external noise primitive, a fixed
\* function of the seed and the point with values in [-1, 1].  The model
\* fixes one table per seed; points and values are thousandths.
PerlinMix(n) == (((n % 2001) * 7919 + 12345) % 2001) - 1000
PerlinGet2(s, px, pz) == PerlinMix(s * 1013 + px * 31 + pz * 17)
PerlinGet3(s, px, py, pz) == PerlinMix(s * 1013 + px * 31 + py * 7 + pz * 17 + 5)

\* The loop of sample_noise: `left` octaves to go.
RECURSIVE SampleOctaves(_, _, _, _, _, _, _, _, _)
SampleOctaves(s, x, z, left, persistence, amplitude, frequency, value, max_value) ==
    IF left <= 0
    THEN ((value * 1000) \div max_value + 1000) \div 2
    ELSE SampleOctaves(s, x, z, left - 1, persistence,
                       (amplitude * persistence) \div 1000,
                       frequency * 2,
                       value + (PerlinGet2(s, x * frequency, z * frequency) * amplitude) \div 1000,
                       max_value + amplitude)

\* World::sample_noise, normalised to 0..1000
SampleNoise(s, x, z, octaves, persistence, scale) ==
    SampleOctaves(s, x, z, octaves, persistence, 1000, scale, 0, 0)

\* The builds of the program: with overflow checks (a debug build: an i32
\* operation that overflows panics) or without (a release build: it wraps).
Builds == {"debug", "release"}

\* a * CHUNK_SIZE in i32: whether it overflows, and the wrapped product.
\* The product of the low 28 bits of a by 16 is the low 32 bits of a * 16.
MulChunkSize(a) ==
    LET low == a % (I32_MAX \div 8 + 1)
        wrapped == IF low > I32_MAX \div CHUNK_SIZE
                   THEN (low - (I32_MAX \div 8 + 1)) * CHUNK_SIZE
                   ELSE low * CHUNK_SIZE
    IN  [overflow |-> a > I32_MAX \div CHUNK_SIZE \/ a < -(I32_MAX \div CHUNK_SIZE) - 1,
         val |-> wrapped]

\* a + b in i32 for 0 <= b: whether it overflows, and the wrapped sum
AddLocal(a, b) ==
    [overflow |-> a > I32_MAX - b,
     val |-> IF a > I32_MAX - b THEN I32_MIN + (b - (I32_MAX - a) - 1) ELSE a + b]

\* chunk_world_x + x as generate_chunk and generate_ores compute it for
\* column x of the chunk at chunk_x (chunk.rs 110, 117, 183, 185), in the
\* given build
ColumnWorldCoord(chunk_x, x, build) ==
    LET chunk_world_x == MulChunkSize(chunk_x)
        world_x == AddLocal(chunk_world_x.val, x)
    IN  IF build = "debug" /\ (chunk_world_x.overflow \/ world_x.overflow)
        THEN [panics |-> TRUE, val |-> 0]
        ELSE [panics |-> FALSE, val |-> world_x.val]

\* Mutant of the clamp: no `.max(1.0)`; the cast to usize takes a negative
\* value to 0.
ClampHeightNoFloor(h) == Max(Min(h, (WORLD_HEIGHT - 1) * 1000), 0) \div 1000

\* The clamp and the cast of chunk.rs 130-132
ClampHeight(h) == Min(Max(h, 1000), (WORLD_HEIGHT - 1) * 1000) \div 1000

\* The height of a column from the values sample_noise returned for its
\* three series (chunk.rs 120-132)
ColumnHeight(base, hill, valley) ==
    LET base_height == 40000 + base * 80
        hill_noise == hill * 20
        valley_noise == valley * 15
    IN  ClampHeight(base_height + hill_noise - valley_noise)

\* height_map[x][z] of the chunk at (chunk_x, chunk_z)
HeightMap(s, chunk_x, chunk_z, x, z) ==
    LET world_x == chunk_x * CHUNK_SIZE + x
        world_z == chunk_z * CHUNK_SIZE + z
    IN  ColumnHeight(SampleNoise(s, world_x, world_z, 6, 500, 5),
                     SampleNoise(s, world_x, world_z, 3, 700, 20),
                     SampleNoise(s, world_x, world_z, 2, 800, 10))

\* Mutant of the column fill: no `y == 0` arm.
ColumnBlockNoBedrock(height, y) ==
    IF y < SaturatingSub(height, 3)
    THEN (IF y < 16 THEN Deepslate ELSE Stone)
    ELSE IF y < SaturatingSub(height, 1) THEN Dirt
    ELSE IF y < height
         THEN (IF height > 90 THEN Stone
               ELSE IF height < 65 THEN Sand
               ELSE GrassBlock)
    ELSE IF y < SEA_LEVEL THEN Water
    ELSE Air

\* Mutant of the column fill: a soil layer one block thinner.
ColumnBlockThinSoil(height, y) ==
    IF y = 0 THEN Bedrock
    ELSE IF y < SaturatingSub(height, 2)
         THEN (IF y < 16 THEN Deepslate ELSE Stone)
    ELSE IF y < SaturatingSub(height, 1) THEN Dirt
    ELSE IF y < height
         THEN (IF height > 90 THEN Stone
               ELSE IF height < 65 THEN Sand
               ELSE GrassBlock)
    ELSE IF y < SEA_LEVEL THEN Water
    ELSE Air

\* The column fill of chunk.rs 142-169
ColumnBlock(height, y) ==
    IF y = 0 THEN Bedrock
    ELSE IF y < SaturatingSub(height, 3)
         THEN (IF y < 16 THEN Deepslate ELSE Stone)
    ELSE IF y < SaturatingSub(height, 1) THEN Dirt
    ELSE IF y < height
         THEN (IF height > 90 THEN Stone
               ELSE IF height < 65 THEN Sand
               ELSE GrassBlock)
    ELSE IF y < SEA_LEVEL THEN Water
    ELSE Air

\* One iteration of the loop of generate_ores: the block written at depth y
\* for noise value ore_noise, or NoOre when none is.
NoOre == Air - 1
OreBlock(ore_noise, y) ==
    IF ore_noise > 600 /\ y > 0 /\ y < 128
    THEN (IF y < 16 THEN DeepslateCoalOre ELSE CoalOre)
    ELSE IF ore_noise > 700 /\ y > 0 /\ y < 64
    THEN (IF y < 16 THEN DeepslateIronOre ELSE IronOre)
    ELSE IF ore_noise > 750 /\ y > 0 /\ y < 32
    THEN (IF y < 16 THEN DeepslateGoldOre ELSE GoldOre)
    ELSE IF ore_noise > 800 /\ y > 1 /\ y < 20
    THEN (IF y < 16 THEN DeepslateDiamondOre ELSE DiamondOre)
    ELSE NoOre

\* The block at depth y of a column of the given height after the fill and
\* generate_ores, whose loop takes y over 1..min(surface_height,
\* WORLD_HEIGHT - 1), end excluded; ore_noise is the noise value at y.
ColumnAfterOres(height, ore_noise, y) ==
    LET ore == OreBlock(ore_noise, y)
    IN  IF y >= 1 /\ y < Min(height, WORLD_HEIGHT - 1) /\ ore # NoOre
        THEN ore
        ELSE ColumnBlock(height, y)

\* The block of column (x, z) of a chunk at depth y
GeneratedBlock(s, chunk_x, chunk_z, x, y, z) ==
    LET height == HeightMap(s, chunk_x, chunk_z, x, z)
        world_x == chunk_x * CHUNK_SIZE + x
        world_z == chunk_z * CHUNK_SIZE + z
    IN  ColumnAfterOres(height, PerlinGet3(s, world_x * 100, y * 100, world_z * 100), y)

\* Mutant of generate_chunk: the noise is drawn from a stream that every
\* earlier generation of this world has advanced.
GenerateChunkByHistory(s, chunk_x, chunk_z) ==
    [x |-> chunk_x, z |-> chunk_z,
     blocks |-> [i \in Voxels |->
        LET x == i % CHUNK_SIZE
            y == (i \div CHUNK_SIZE) % WORLD_HEIGHT
            z == i \div (CHUNK_SIZE * WORLD_HEIGHT)
        IN  GeneratedBlock(s + Cardinality(DOMAIN chunks), chunk_x, chunk_z, x, y, z)]]

\* World::generate_chunk
GenerateChunk(s, chunk_x, chunk_z) ==
    [x |-> chunk_x, z |-> chunk_z,
     blocks |-> [i \in Voxels |->
        LET x == i % CHUNK_SIZE
            y == (i \div CHUNK_SIZE) % WORLD_HEIGHT
            z == i \div (CHUNK_SIZE * WORLD_HEIGHT)
        IN  GeneratedBlock(s, chunk_x, chunk_z, x, y, z)]]

---------------------------------------------------------------------------
(* Chunk store (chunk.rs 356-384) and the derived codec (block.rs 5-7) *)

\* Option<T>
None == [some |-> FALSE, val |-> <<>>]
Some(v) == [some |-> TRUE, val |-> v]

\* Mutant of the derived Serialize: the discriminant is written (the
\* derived Deserialize still reads a variant index).
VariantIndexAsDiscriminant(block) == block

\* The derived Serialize of BlockType writes a unit variant as its index in
\* the declaration (a u32 in bincode), not as its discriminant.
VariantIndex(block) ==
    CHOOSE k \in 0..(Len(BlockTypeVariants) - 1) : BlockTypeVariants[k + 1] = block

\* The derived Deserialize of BlockType: the variant with that index; an
\* index that names no variant is an error.
VariantFromIndex(k) ==
    IF k \in 0..(Len(BlockTypeVariants) - 1)
    THEN Some(BlockTypeVariants[k + 1])
    ELSE None

\* A file of the storage root: absent, bytes that do not decode, or the
\* bincode encoding of a Chunk (x, z, then the voxels in index order).
NoFile == [kind |-> "none", x |-> 0, z |-> 0, data |-> <<>>]
GarbageFile == [kind |-> "garbage", x |-> 0, z |-> 0, data |-> <<>>]

\* bincode::serialize(chunk)
Serialize(chunk) ==
    [kind |-> "chunk", x |-> chunk.x, z |-> chunk.z,
     data |-> [i \in DOMAIN chunk.blocks |-> VariantIndex(chunk.blocks[i])]]

\* bincode::deserialize(&data).ok()
Deserialize(file) ==
    IF file.kind = "chunk" /\ \A i \in DOMAIN file.data : VariantFromIndex(file.data[i]).some
    THEN Some([x |-> file.x, z |-> file.z,
               blocks |-> [i \in DOMAIN file.data |-> VariantFromIndex(file.data[i]).val]])
    ELSE None

\* How a std::fs::write (after create_dir_all) ends: the file written; an
\* error with the file untouched; an error after the file was truncated.
WriteOutcomes == {"ok", "failed", "torn"}

WrittenFile(old, data, outcome) ==
    CASE outcome = "ok" -> data
      [] outcome = "failed" -> old
      [] outcome = "torn" -> GarbageFile

\* World::chunk_path: the key of the file in `files`, None without a
\* storage root.
ChunkPath(dir, chunk_x, chunk_z) ==
    IF dir = "None" THEN None ELSE Some(<<chunk_x, chunk_z>>)

\* World::load_chunk_from_disk
LoadChunkFromDisk(dir, fs, chunk_x, chunk_z) ==
    LET path == ChunkPath(dir, chunk_x, chunk_z)
    IN  IF ~path.some THEN None
        ELSE IF fs[path.val].kind = "none" THEN None
        ELSE Deserialize(fs[path.val])

\* World::save_chunk_to_disk: the files afterwards and whether it returned Ok
SaveChunkToDisk(dir, fs, chunk, outcome) ==
    IF dir = "None"
    THEN [files |-> fs, ok |-> TRUE]
    ELSE LET path == <<chunk.x, chunk.z>>
         IN  [files |-> [fs EXCEPT ![path] = WrittenFile(fs[path], Serialize(chunk), outcome)],
              ok |-> outcome = "ok"]

\* world_meta.json: absent, text that is no JSON document, or a JSON
\* document with its "seed" (<<>> when it has none).
NoMeta == [kind |-> "none", seed |-> <<>>]
GarbageMeta == [kind |-> "garbage", seed |-> <<>>]
JsonMeta(s) == [kind |-> "json", seed |-> <<s>>]

WrittenMeta(old, s, outcome) ==
    CASE outcome = "ok" -> JsonMeta(s)
      [] outcome = "failed" -> old
      [] outcome = "torn" -> GarbageMeta

---------------------------------------------------------------------------
(* World (chunk.rs 42-106, 264-354) *)

\* What an operation leaves in `last`: its name, arguments and result, the
\* way a chunk was obtained ("cached", "loaded", "generated"; "panic" when
\* the operation panicked instead of returning) and, for save_dirty_chunks,
\* the coordinates whose save returned Err.
Op(name, args, ret, how, failed) ==
    [op |-> name, args |-> args, ret |-> ret, how |-> how, failed |-> failed]

\* Mutant of get_chunk: a generated chunk is not marked dirty.
GetChunkPostCleanGenerated(chs, dirty, s, dir, fs, chunk_x, chunk_z) ==
    LET key == <<chunk_x, chunk_z>>
        loaded == LoadChunkFromDisk(dir, fs, chunk_x, chunk_z)
    IN  IF key \notin DOMAIN chs
        THEN IF loaded.some
             THEN [chunks |-> [k \in DOMAIN chs \cup {key} |->
                                 IF k = key THEN loaded.val ELSE chs[k]],
                   dirty |-> dirty, how |-> "loaded"]
             ELSE [chunks |-> [k \in DOMAIN chs \cup {key} |->
                                 IF k = key THEN GenerateChunk(s, chunk_x, chunk_z) ELSE chs[k]],
                   dirty |-> dirty, how |-> "generated"]
        ELSE [chunks |-> chs, dirty |-> dirty, how |-> "cached"]

\* Mutant of get_chunk: a loaded chunk is marked dirty like a generated one.
GetChunkPostLoadedDirty(chs, dirty, s, dir, fs, chunk_x, chunk_z) ==
    LET key == <<chunk_x, chunk_z>>
        loaded == LoadChunkFromDisk(dir, fs, chunk_x, chunk_z)
    IN  IF key \notin DOMAIN chs
        THEN [chunks |-> [k \in DOMAIN chs \cup {key} |->
                            IF k = key
                            THEN (IF loaded.some THEN loaded.val
                                  ELSE GenerateChunk(s, chunk_x, chunk_z))
                            ELSE chs[k]],
              dirty |-> dirty \cup {key},
              how |-> IF loaded.some THEN "loaded" ELSE "generated"]
        ELSE [chunks |-> chs, dirty |-> dirty, how |-> "cached"]

\* Mutant of get_chunk: a cache of one chunk; a chunk that is not resident
\* takes the place of those that are.
GetChunkPostSingleEntry(chs, dirty, s, dir, fs, chunk_x, chunk_z) ==
    LET key == <<chunk_x, chunk_z>>
        loaded == LoadChunkFromDisk(dir, fs, chunk_x, chunk_z)
    IN  IF key \notin DOMAIN chs
        THEN IF loaded.some
             THEN [chunks |-> [k \in {key} |-> loaded.val],
                   dirty |-> dirty, how |-> "loaded"]
             ELSE [chunks |-> [k \in {key} |-> GenerateChunk(s, chunk_x, chunk_z)],
                   dirty |-> dirty \cup {key}, how |-> "generated"]
        ELSE [chunks |-> chs, dirty |-> dirty, how |-> "cached"]

\* World::get_chunk: the chunk map and the dirty set afterwards
GetChunkPost(chs, dirty, s, dir, fs, chunk_x, chunk_z) ==
    LET key == <<chunk_x, chunk_z>>
        loaded == LoadChunkFromDisk(dir, fs, chunk_x, chunk_z)
    IN  IF key \notin DOMAIN chs
        THEN IF loaded.some
             THEN [chunks |-> [k \in DOMAIN chs \cup {key} |->
                                 IF k = key THEN loaded.val ELSE chs[k]],
                   dirty |-> dirty, how |-> "loaded"]
             ELSE [chunks |-> [k \in DOMAIN chs \cup {key} |->
                                 IF k = key THEN GenerateChunk(s, chunk_x, chunk_z) ELSE chs[k]],
                   dirty |-> dirty \cup {key}, how |-> "generated"]
        ELSE [chunks |-> chs, dirty |-> dirty, how |-> "cached"]

\* Mutant of get_chunk_mut: no look at the cache, the chunk is loaded or
\* generated on every call.
GetChunkMutPostReload(chs, dirty, s, dir, fs, chunk_x, chunk_z) ==
    LET key == <<chunk_x, chunk_z>>
        loaded == LoadChunkFromDisk(dir, fs, chunk_x, chunk_z)
    IN  IF loaded.some
        THEN [chunks |-> [k \in DOMAIN chs \cup {key} |->
                            IF k = key THEN loaded.val ELSE chs[k]],
              dirty |-> dirty, how |-> "loaded"]
        ELSE [chunks |-> [k \in DOMAIN chs \cup {key} |->
                            IF k = key THEN GenerateChunk(s, chunk_x, chunk_z) ELSE chs[k]],
              dirty |-> dirty \cup {key}, how |-> "generated"]

\* World::get_chunk_mut: the same get-or-create, written out a second time
GetChunkMutPost(chs, dirty, s, dir, fs, chunk_x, chunk_z) ==
    LET key == <<chunk_x, chunk_z>>
        loaded == LoadChunkFromDisk(dir, fs, chunk_x, chunk_z)
    IN  IF key \notin DOMAIN chs
        THEN IF loaded.some
             THEN [chunks |-> [k \in DOMAIN chs \cup {key} |->
                                 IF k = key THEN loaded.val ELSE chs[k]],
                   dirty |-> dirty, how |-> "loaded"]
             ELSE [chunks |-> [k \in DOMAIN chs \cup {key} |->
                                 IF k = key THEN GenerateChunk(s, chunk_x, chunk_z) ELSE chs[k]],
                   dirty |-> dirty \cup {key}, how |-> "generated"]
        ELSE [chunks |-> chs, dirty |-> dirty, how |-> "cached"]

\* i32::div_euclid and i32::rem_euclid, over the / and % of i32, which
\* truncate towards zero (the divisor is CHUNK_SIZE, positive)
TruncDiv(a, b) == IF a >= 0 \/ a % b = 0 THEN a \div b ELSE (a \div b) + 1
TruncRem(a, b) == a - b * TruncDiv(a, b)
DivEuclid(a, b) ==
    LET q == TruncDiv(a, b)
    IN  IF TruncRem(a, b) < 0 THEN (IF b > 0 THEN q - 1 ELSE q + 1) ELSE q
RemEuclid(a, b) ==
    LET r == TruncRem(a, b)
    IN  IF r < 0 THEN r + (IF b < 0 THEN -b ELSE b) ELSE r

\* Mutant of split_world_coord: the / and % of i32 in place of div_euclid
\* and rem_euclid.
SplitWorldCoordTruncating(coord) ==
    LET size == CHUNK_SIZE
    IN  [chunk |-> TruncDiv(coord, size), local |-> TruncRem(coord, size)]

\* World::split_world_coord
SplitWorldCoord(coord) ==
    LET size == CHUNK_SIZE
    IN  [chunk |-> DivEuclid(coord, size), local |-> RemEuclid(coord, size)]

\* The height test of get_block_at, set_block_at and of break_block and
\* place_block
InRangeWorldY(world_y) == ~(world_y < 0 \/ world_y >= WORLD_HEIGHT)

\* World::get_chunk
GetChunk(chunk_x, chunk_z) ==
    LET post == GetChunkPost(chunks, dirty_chunks, seed, world_dir, files, chunk_x, chunk_z)
    IN  /\ chunks' = post.chunks
        /\ dirty_chunks' = post.dirty
        /\ last' = Op("get_chunk", <<chunk_x, chunk_z>>, <<>>, post.how, {})
        /\ UNCHANGED <<seed, world_dir, files, meta, calc>>

\* World::get_chunk_mut
GetChunkMut(chunk_x, chunk_z) ==
    LET post == GetChunkMutPost(chunks, dirty_chunks, seed, world_dir, files, chunk_x, chunk_z)
    IN  /\ chunks' = post.chunks
        /\ dirty_chunks' = post.dirty
        /\ last' = Op("get_chunk_mut", <<chunk_x, chunk_z>>, <<>>, post.how, {})
        /\ UNCHANGED <<seed, world_dir, files, meta, calc>>

\* Mutant of get_block_at: the height is checked only after the chunk was
\* fetched.
GetBlockAtUnchecked(world_x, world_y, world_z) ==
    LET sx == SplitWorldCoord(world_x)
        sz == SplitWorldCoord(world_z)
        post == GetChunkPost(chunks, dirty_chunks, seed, world_dir, files,
                             sx.chunk, sz.chunk)
        chunk == post.chunks[<<sx.chunk, sz.chunk>>]
    IN  /\ chunks' = post.chunks
        /\ dirty_chunks' = post.dirty
        /\ last' = Op("get_block_at", <<world_x, world_y, world_z>>,
                      IF world_y < 0 \/ world_y >= WORLD_HEIGHT
                      THEN <<Air>>
                      ELSE <<ChunkGetBlock(chunk, sx.local, world_y, sz.local)>>,
                      post.how, {})
        /\ UNCHANGED <<seed, world_dir, files, meta, calc>>

\* World::get_block_at
GetBlockAt(world_x, world_y, world_z) ==
    IF world_y < 0 \/ world_y >= WORLD_HEIGHT
    THEN /\ last' = Op("get_block_at", <<world_x, world_y, world_z>>, <<Air>>, "", {})
         /\ UNCHANGED <<chunks, dirty_chunks, seed, world_dir, files, meta, calc>>
    ELSE LET sx == SplitWorldCoord(world_x)
             sz == SplitWorldCoord(world_z)
             post == GetChunkPost(chunks, dirty_chunks, seed, world_dir, files,
                                  sx.chunk, sz.chunk)
             chunk == post.chunks[<<sx.chunk, sz.chunk>>]
         IN  IF IndexPanics(chunk, sx.local, world_y, sz.local)
             THEN /\ chunks' = post.chunks
                  /\ dirty_chunks' = post.dirty
                  /\ last' = Op("get_block_at", <<world_x, world_y, world_z>>,
                                <<>>, "panic", {})
                  /\ UNCHANGED <<seed, world_dir, files, meta, calc>>
             ELSE /\ chunks' = post.chunks
                  /\ dirty_chunks' = post.dirty
                  /\ last' = Op("get_block_at", <<world_x, world_y, world_z>>,
                                <<ChunkGetBlock(chunk, sx.local, world_y, sz.local)>>,
                                post.how, {})
                  /\ UNCHANGED <<seed, world_dir, files, meta, calc>>

\* Mutant of set_block_at: no comparison with the current block, every
\* in-range call writes and marks the chunk dirty.
SetBlockAtAlwaysDirty(world_x, world_y, world_z, block) ==
    IF world_y < 0 \/ world_y >= WORLD_HEIGHT
    THEN /\ last' = Op("set_block_at", <<world_x, world_y, world_z, block>>, <<>>, "", {})
         /\ UNCHANGED <<chunks, dirty_chunks, seed, world_dir, files, meta, calc>>
    ELSE LET sx == SplitWorldCoord(world_x)
             sz == SplitWorldCoord(world_z)
             key == <<sx.chunk, sz.chunk>>
             post == GetChunkMutPost(chunks, dirty_chunks, seed, world_dir, files,
                                     sx.chunk, sz.chunk)
             chunk == post.chunks[key]
         IN  /\ chunks' = [post.chunks EXCEPT
                             ![key] = ChunkSetBlock(chunk, sx.local, world_y, sz.local, block)]
             /\ dirty_chunks' = post.dirty \cup {key}
             /\ last' = Op("set_block_at", <<world_x, world_y, world_z, block>>,
                           key, post.how, {})
             /\ UNCHANGED <<seed, world_dir, files, meta, calc>>

\* Mutant of set_block_at: a differing block marks the chunk dirty and
\* returns its coordinate, but the write is left out.
SetBlockAtNoWrite(world_x, world_y, world_z, block) ==
    IF world_y < 0 \/ world_y >= WORLD_HEIGHT
    THEN /\ last' = Op("set_block_at", <<world_x, world_y, world_z, block>>, <<>>, "", {})
         /\ UNCHANGED <<chunks, dirty_chunks, seed, world_dir, files, meta, calc>>
    ELSE LET sx == SplitWorldCoord(world_x)
             sz == SplitWorldCoord(world_z)
             key == <<sx.chunk, sz.chunk>>
             post == GetChunkMutPost(chunks, dirty_chunks, seed, world_dir, files,
                                     sx.chunk, sz.chunk)
             current == ChunkGetBlock(post.chunks[key], sx.local, world_y, sz.local)
         IN  /\ chunks' = post.chunks
             /\ dirty_chunks' = IF current = block THEN post.dirty ELSE post.dirty \cup {key}
             /\ last' = Op("set_block_at", <<world_x, world_y, world_z, block>>,
                           IF current = block THEN <<>> ELSE key, post.how, {})
             /\ UNCHANGED <<seed, world_dir, files, meta, calc>>

\* World::set_block_at
SetBlockAt(world_x, world_y, world_z, block) ==
    IF world_y < 0 \/ world_y >= WORLD_HEIGHT
    THEN /\ last' = Op("set_block_at", <<world_x, world_y, world_z, block>>, <<>>, "", {})
         /\ UNCHANGED <<chunks, dirty_chunks, seed, world_dir, files, meta, calc>>
    ELSE LET sx == SplitWorldCoord(world_x)
             sz == SplitWorldCoord(world_z)
             key == <<sx.chunk, sz.chunk>>
             post == GetChunkMutPost(chunks, dirty_chunks, seed, world_dir, files,
                                     sx.chunk, sz.chunk)
             chunk == post.chunks[key]
             current == ChunkGetBlock(chunk, sx.local, world_y, sz.local)
         IN  IF IndexPanics(chunk, sx.local, world_y, sz.local)
             THEN /\ chunks' = post.chunks
                  /\ dirty_chunks' = post.dirty
                  /\ last' = Op("set_block_at", <<world_x, world_y, world_z, block>>,
                                <<>>, "panic", {})
                  /\ UNCHANGED <<seed, world_dir, files, meta, calc>>
             ELSE IF current = block
             THEN /\ chunks' = post.chunks
                  /\ dirty_chunks' = post.dirty
                  /\ last' = Op("set_block_at", <<world_x, world_y, world_z, block>>,
                                <<>>, post.how, {})
                  /\ UNCHANGED <<seed, world_dir, files, meta, calc>>
             ELSE /\ chunks' = [post.chunks EXCEPT
                                  ![key] = ChunkSetBlock(chunk, sx.local, world_y, sz.local, block)]
                  /\ dirty_chunks' = post.dirty \cup {key}
                  /\ last' = Op("set_block_at", <<world_x, world_y, world_z, block>>,
                                key, post.how, {})
                  /\ UNCHANGED <<seed, world_dir, files, meta, calc>>

\* The orders in which `drain()` of a HashSet can yield its elements
DrainOrders(set) ==
    {o \in [1..Cardinality(set) -> set] :
        \A i, j \in 1..Cardinality(set) : o[i] = o[j] => i = j}

\* Mutant of the loop of save_dirty_chunks: the first failed write ends the
\* batch.
RECURSIVE SaveLoopAbort(_, _, _, _, _, _, _)
SaveLoopAbort(to_save, i, outcome, chs, dir, fs, dirty) ==
    IF i > Len(to_save)
    THEN [files |-> fs, dirty |-> dirty]
    ELSE LET key == to_save[i]
         IN  IF key \in DOMAIN chs
             THEN LET saved == SaveChunkToDisk(dir, fs, chs[key], outcome[key])
                  IN  IF saved.ok
                      THEN SaveLoopAbort(to_save, i + 1, outcome, chs, dir, saved.files, dirty)
                      ELSE [files |-> saved.files, dirty |-> dirty \cup {key}]
             ELSE SaveLoopAbort(to_save, i + 1, outcome, chs, dir, fs, dirty)

\* The loop of save_dirty_chunks over to_save from position i on:
\* outcome[key] is how the write of that chunk's file ends.
RECURSIVE SaveLoop(_, _, _, _, _, _, _)
SaveLoop(to_save, i, outcome, chs, dir, fs, dirty) ==
    IF i > Len(to_save)
    THEN [files |-> fs, dirty |-> dirty]
    ELSE LET key == to_save[i]
         IN  IF key \in DOMAIN chs
             THEN LET saved == SaveChunkToDisk(dir, fs, chs[key], outcome[key])
                  IN  SaveLoop(to_save, i + 1, outcome, chs, dir, saved.files,
                               IF saved.ok THEN dirty ELSE dirty \cup {key})
             ELSE SaveLoop(to_save, i + 1, outcome, chs, dir, fs, dirty)

\* World::save_dirty_chunks: the files and the dirty set afterwards
SaveDirtyChunksPost(chs, dirty, dir, fs, to_save, outcome) ==
    IF dirty = {}
    THEN [files |-> fs, dirty |-> dirty]
    ELSE IF dir = "None"
    THEN [files |-> fs, dirty |-> {}]
    ELSE SaveLoop(to_save, 1, outcome, chs, dir, fs, {})

\* World::save_dirty_chunks.  `last` keeps to_save and the coordinates whose
\* write ended in an error.
SaveDirtyChunks ==
    \E to_save \in DrainOrders(dirty_chunks), outcome \in [dirty_chunks -> WriteOutcomes] :
        LET post == SaveDirtyChunksPost(chunks, dirty_chunks, world_dir, files,
                                        to_save, outcome)
            failed == IF world_dir = "None" THEN {}
                      ELSE {k \in dirty_chunks \cap DOMAIN chunks : outcome[k] # "ok"}
        IN  /\ files' = post.files
            /\ dirty_chunks' = post.dirty
            /\ last' = Op("save_dirty_chunks", to_save, <<>>, "", failed)
            /\ UNCHANGED <<chunks, seed, world_dir, meta, calc>>

\* World::save_meta: world_meta.json afterwards
SaveMetaPost(dir, m, s, outcome) ==
    IF dir = "None" THEN m ELSE WrittenMeta(m, s, outcome)

\* World::save_meta
SaveMeta(outcome) ==
    /\ meta' = SaveMetaPost(world_dir, meta, seed, outcome)
    /\ last' = Op("save_meta", <<>>, <<>>, "", {})
    /\ UNCHANGED <<chunks, dirty_chunks, seed, world_dir, files, calc>>

\* World::new: the seed used and world_meta.json afterwards.  seed_arg is
\* <<>> (None) or <<s>>; random is what rand::random() returns when asked.
\* A seed read from the file is cast `as u32`; the seeds of the model are
\* in range, where the cast keeps the value.
NewPost(dir, seed_arg, random, m, outcome) ==
    LET used_seed == IF seed_arg = <<>> THEN random ELSE seed_arg[1]
    IN  IF dir = "None"
        THEN [seed |-> used_seed, meta |-> m]
        ELSE IF m.kind # "none"
        THEN IF m.kind = "json" /\ m.seed # <<>>
             THEN [seed |-> m.seed[1], meta |-> m]
             ELSE [seed |-> used_seed, meta |-> m]
        ELSE [seed |-> used_seed, meta |-> WrittenMeta(m, used_seed, outcome)]

\* World::new (App::new, and the world list's Play and Create)
New(dir, seed_arg, random, outcome) ==
    LET post == NewPost(dir, seed_arg, random, meta, outcome)
    IN  /\ chunks' = <<>>
        /\ dirty_chunks' = {}
        /\ seed' = post.seed
        /\ world_dir' = dir
        /\ meta' = post.meta
        /\ last' = Op("new", seed_arg, <<post.seed>>, "", {})
        /\ UNCHANGED <<files, calc>>

\* The last evaluation of a pure function: its name, input and output
NoCalc == [fn |-> "", in |-> 0, out |-> [chunk |-> 0, local |-> 0]]

---------------------------------------------------------------------------
(* Chunk mesh (renderer.rs 582-692) *)

\* BlockType::is_solid
IsSolid(block) == block \notin {Air, CaveAir, VoidAir, Water}

BlockFaces == {"Top", "Bottom", "North", "South", "East", "West"}

\* Mutant of the visibility test: no culling, every face of a solid voxel is
\* emitted.
FaceVisibleAlways(chunk, x, y, z, face) == TRUE

\* The `visible` flag build_chunk_mesh computes for a face of voxel (x, y, z)
FaceVisible(chunk, x, y, z, face) ==
    CASE face = "Top" ->
            y + 1 >= WORLD_HEIGHT \/ ~IsSolid(ChunkGetBlock(chunk, x, y + 1, z))
      [] face = "Bottom" ->
            y = 0 \/ ~IsSolid(ChunkGetBlock(chunk, x, y - 1, z))
      [] face = "North" ->
            z + 1 >= CHUNK_SIZE \/ ~IsSolid(ChunkGetBlock(chunk, x, y, z + 1))
      [] face = "South" ->
            z = 0 \/ ~IsSolid(ChunkGetBlock(chunk, x, y, z - 1))
      [] face = "East" ->
            x + 1 >= CHUNK_SIZE \/ ~IsSolid(ChunkGetBlock(chunk, x + 1, y, z))
      [] face = "West" ->
            x = 0 \/ ~IsSolid(ChunkGetBlock(chunk, x - 1, y, z))

\* Renderer::build_chunk_mesh: the faces emitted, as <<x, y, z, face>>, and
\* the lengths of the two vectors (emit_face pushes 4 vertices and 6
\* indices for a face).
BuildChunkMesh(chunk) ==
    LET solid == {c \in (0..(CHUNK_SIZE - 1)) \X (0..(WORLD_HEIGHT - 1)) \X (0..(CHUNK_SIZE - 1)) :
                     IsSolid(ChunkGetBlock(chunk, c[1], c[2], c[3]))}
        faces == {<<c[1], c[2], c[3], face>> : <<c, face>> \in
                     {cf \in solid \X BlockFaces :
                         FaceVisible(chunk, cf[1][1], cf[1][2], cf[1][3], cf[2])}}
    IN  [faces |-> faces,
         vertices |-> 4 * Cardinality(faces),
         indices |-> 6 * Cardinality(faces)]

\* Renderer::face_vertices: the four corners of a face, as offsets from the
\* voxel's position
FaceVertices(face) ==
    CASE face = "Top" -> <<<<0, 1, 0>>, <<0, 1, 1>>, <<1, 1, 1>>, <<1, 1, 0>>>>
      [] face = "Bottom" -> <<<<0, 0, 0>>, <<1, 0, 0>>, <<1, 0, 1>>, <<0, 0, 1>>>>
      [] face = "North" -> <<<<0, 0, 1>>, <<1, 0, 1>>, <<1, 1, 1>>, <<0, 1, 1>>>>
      [] face = "South" -> <<<<0, 0, 0>>, <<0, 1, 0>>, <<1, 1, 0>>, <<1, 0, 0>>>>
      [] face = "East" -> <<<<1, 0, 0>>, <<1, 1, 0>>, <<1, 1, 1>>, <<1, 0, 1>>>>
      [] face = "West" -> <<<<0, 0, 0>>, <<0, 0, 1>>, <<0, 1, 1>>, <<0, 1, 0>>>>

\* Renderer::face_normal
FaceNormal(face) ==
    CASE face = "Top" -> <<0, 1, 0>>
      [] face = "Bottom" -> <<0, -1, 0>>
      [] face = "North" -> <<0, 0, 1>>
      [] face = "South" -> <<0, 0, -1>>
      [] face = "East" -> <<1, 0, 0>>
      [] face = "West" -> <<-1, 0, 0>>

\* The vertices emit_face pushes for a face of the voxel at base_pos
FaceQuad(face, base_pos) ==
    [i \in 1..4 |->
        [position |-> <<base_pos[1] + FaceVertices(face)[i][1],
                        base_pos[2] + FaceVertices(face)[i][2],
                        base_pos[3] + FaceVertices(face)[i][3]>>,
         normal |-> FaceNormal(face)]]

\* Mutant of emit_face: the two triangles of a face wound the other way.
EmitFaceClockwise(face, base_pos, vertices, indices) ==
    LET start_index == Len(vertices)
    IN  [vertices |-> vertices \o FaceQuad(face, base_pos),
         indices |-> indices \o <<start_index, start_index + 2, start_index + 1,
                                   start_index, start_index + 3, start_index + 2>>]

\* Renderer::emit_face: the two vectors after the face is emitted (texture
\* coordinates and colour left out)
EmitFace(face, base_pos, vertices, indices) ==
    LET start_index == Len(vertices)
    IN  [vertices |-> vertices \o FaceQuad(face, base_pos),
         indices |-> indices \o <<start_index, start_index + 1, start_index + 2,
                                   start_index, start_index + 2, start_index + 3>>]

---------------------------------------------------------------------------
(* Spec: the chunk cache and the chunk store.  One seed; the writes of      *)
(* world_meta.json succeed (SpecSeed follows the seed and the metadata).    *)

\* The state after App::new: World::new(None, None) over an empty storage root
Init ==
    /\ chunks = <<>>
    /\ dirty_chunks = {}
    /\ seed = WorldSeed
    /\ world_dir = "None"
    /\ files = [p \in Paths |-> NoFile]
    /\ meta = NoMeta
    /\ last = Op("new", <<>>, <<seed>>, "", {})
    /\ calc = NoCalc
    /\ chunk_meshes = {}

Next ==
    \/ \E c \in Coords : GetChunk(c[1], c[2]) /\ UNCHANGED chunk_meshes
    \/ \E c \in Coords : GetChunkMut(c[1], c[2]) /\ UNCHANGED chunk_meshes
    \/ \E w \in WorldPositions : GetBlockAt(w[1], w[2], w[3]) /\ UNCHANGED chunk_meshes
    \/ \E w \in WorldPositions, b \in EditBlocks :
          SetBlockAt(w[1], w[2], w[3], b) /\ UNCHANGED chunk_meshes
    \/ SaveDirtyChunks /\ UNCHANGED chunk_meshes
    \/ \E dir \in {"None", "Some"} :
          New(dir, <<>>, WorldSeed, "ok") /\ UNCHANGED chunk_meshes

Spec == Init /\ [][Next]_vars

---------------------------------------------------------------------------
(* SpecSeed: the seed and world_meta.json.  World::new is given or draws    *)
(* any seed; the storage root starts empty or with a world_meta.json that   *)
(* is no JSON document (the world list offers every directory); the writes  *)
(* of world_meta.json succeed.                                              *)

SeedArgs == {<<>>} \cup {<<s>> : s \in Seeds}

InitSeed ==
    /\ chunks = <<>>
    /\ dirty_chunks = {}
    /\ seed \in Seeds
    /\ world_dir = "None"
    /\ files = [p \in Paths |-> NoFile]
    /\ meta \in {NoMeta, GarbageMeta}
    /\ last = Op("new", <<>>, <<seed>>, "", {})
    /\ calc = NoCalc
    /\ chunk_meshes = {}

NextSeed ==
    \/ GetChunk(0, 0) /\ UNCHANGED chunk_meshes
    \/ SetBlockAt(0, 255, 0, Stone) /\ UNCHANGED chunk_meshes
    \/ SaveDirtyChunks /\ UNCHANGED chunk_meshes
    \/ SaveMeta("ok") /\ UNCHANGED chunk_meshes
    \/ \E dir \in {"None", "Some"}, seed_arg \in SeedArgs, random \in Seeds :
          New(dir, seed_arg, random, "ok") /\ UNCHANGED chunk_meshes

SpecSeed == InitSeed /\ [][NextSeed]_vars

---------------------------------------------------------------------------
(* SpecStore: a world opened on a storage root that holds a chunk file this *)
(* program did not write as it stands (a world copied from elsewhere, an    *)
(* older or a damaged file).  A panic ends the program.                     *)

\* An integer that is the index of no variant of BlockType
UnknownVariantIndex == Len(BlockTypeVariants)

\* The file of a generated chunk with a Chest placed in it, in which one
\* other voxel holds an unknown integer
UnknownIdFile(key) ==
    LET chunk == ChunkSetBlock(GenerateChunk(WorldSeed, key[1], key[2]), 15, 255, 0, Chest)
    IN  [Serialize(chunk) EXCEPT !.data[BlockIndex(0, 255, 0)] = UnknownVariantIndex]

\* The file of a generated chunk cut after its first ShortLength voxels: it
\* decodes, to a chunk with a shorter vector.
ShortLength == CHUNK_SIZE * CHUNK_SIZE
ShortFile(key) ==
    LET file == Serialize(GenerateChunk(WorldSeed, key[1], key[2]))
    IN  [file EXCEPT !.data = [i \in {j \in Voxels : j < ShortLength} |-> file.data[i]]]

\* The file this program wrote for another chunk, under the name of the
\* chunk at key (a file renamed or copied in the chunks directory): it
\* decodes, to a chunk with the other chunk's coordinates.
MovedFile(key) ==
    LET from == CHOOSE k \in Coords : k # key
    IN  Serialize(GenerateChunk(WorldSeed, from[1], from[2]))

ForeignFiles(key) == {GarbageFile, UnknownIdFile(key), ShortFile(key), MovedFile(key)}

\* The state after World::new(Some(root), None) on such a storage root
InitStore ==
    /\ chunks = <<>>
    /\ dirty_chunks = {}
    /\ seed = WorldSeed
    /\ world_dir = "Some"
    /\ \E key \in Coords : \E file \in ForeignFiles(key) :
          files = [p \in Paths |-> IF p = key THEN file ELSE NoFile]
    /\ meta = JsonMeta(seed)
    /\ last = Op("new", <<>>, <<seed>>, "", {})
    /\ calc = NoCalc
    /\ chunk_meshes = {}

Panicked == last.how = "panic"

NextStore ==
    \/ \E c \in Coords : ~Panicked /\ GetChunk(c[1], c[2]) /\ UNCHANGED chunk_meshes
    \/ \E w \in WorldPositions :
          ~Panicked /\ GetBlockAt(w[1], w[2], w[3]) /\ UNCHANGED chunk_meshes
    \/ \E w \in WorldPositions, b \in EditBlocks :
          ~Panicked /\ SetBlockAt(w[1], w[2], w[3], b) /\ UNCHANGED chunk_meshes
    \/ ~Panicked /\ SaveDirtyChunks /\ UNCHANGED chunk_meshes

SpecStore == InitStore /\ [][NextStore]_vars

---------------------------------------------------------------------------
(* SpecCalc: the pure functions, each evaluated once on one of its inputs *)

CoordInputs == (-MaxCoord..MaxCoord) \cup {I32_MIN, I32_MAX}

CalcSplitWorldCoord(coord) ==
    /\ calc = NoCalc
    /\ calc' = [fn |-> "split_world_coord", in |-> coord, out |-> SplitWorldCoord(coord)]
    /\ UNCHANGED <<chunks, dirty_chunks, seed, world_dir, files, meta, last, chunk_meshes>>

\* save_chunk_to_disk of a chunk into an empty storage root, then
\* load_chunk_from_disk of its coordinate
CalcRoundTrip(chunk) ==
    LET saved == SaveChunkToDisk("Some", [p \in Paths |-> NoFile], chunk, "ok")
    IN  /\ calc = NoCalc
        /\ calc' = [fn |-> "round_trip", in |-> chunk,
                    out |-> LoadChunkFromDisk("Some", saved.files, chunk.x, chunk.z)]
        /\ UNCHANGED <<chunks, dirty_chunks, seed, world_dir, files, meta, last, chunk_meshes>>

\* A chunk at every coordinate of the model, holding any two blocks of the
\* catalog of which one is among RoundTripBlocks
RoundTripBlocks == {Air, Stone, CoalOre, Bedrock, Chest}
RoundTripChunks ==
    {[ChunkNew(c[1], c[2]) EXCEPT !.blocks[BlockIndex(0, 0, 0)] = b0,
                                  !.blocks[BlockIndex(15, 255, 0)] = b1] :
        c \in Coords, b0 \in RoundTripBlocks, b1 \in BlockType}

FromIdInputs == (0..MaxId) \cup {U16_MAX}

CalcFromId(id) ==
    /\ calc = NoCalc
    /\ calc' = [fn |-> "from_id", in |-> id, out |-> FromId(id)]
    /\ UNCHANGED <<chunks, dirty_chunks, seed, world_dir, files, meta, last, chunk_meshes>>

\* get_block and set_block on a chunk of Stone, at the first and last
\* position of each axis, just past it, and far past it
BoundsChunk == [ChunkNew(0, 0) EXCEPT !.blocks = [i \in Voxels |-> Stone]]
BoundsXs == {0, CHUNK_SIZE - 1, CHUNK_SIZE, MaxLocal}
BoundsYs == {0, WORLD_HEIGHT - 1, WORLD_HEIGHT, MaxLocal}
BoundsZs == {0, CHUNK_SIZE, MaxLocal}

CalcChunkBounds(x, y, z) ==
    /\ calc = NoCalc
    /\ calc' = [fn |-> "chunk_bounds", in |-> <<x, y, z>>,
                out |-> [panics |-> IndexPanics(BoundsChunk, x, y, z),
                         get |-> IF IndexPanics(BoundsChunk, x, y, z) THEN Air
                                 ELSE ChunkGetBlock(BoundsChunk, x, y, z),
                         set |-> IF IndexPanics(BoundsChunk, x, y, z) THEN BoundsChunk
                                 ELSE ChunkSetBlock(BoundsChunk, x, y, z, Chest)]]
    /\ UNCHANGED <<chunks, dirty_chunks, seed, world_dir, files, meta, last, chunk_meshes>>

\* set_block then get_block on a chunk as Chunk::new makes it, with the
\* whole vector of CHUNK_SIZE * WORLD_HEIGHT * CHUNK_SIZE blocks, at the
\* ends and next to the start of each axis
AddressChunk ==
    [x |-> 0, z |-> 0,
     blocks |-> [i \in 0..(CHUNK_SIZE * WORLD_HEIGHT * CHUNK_SIZE - 1) |-> Air]]
AddressXs == {0, 1, CHUNK_SIZE - 1}
AddressYs == {0, 1, WORLD_HEIGHT - 1}
AddressZs == {0, 1, CHUNK_SIZE - 1}
InRangeCoords == (0..(CHUNK_SIZE - 1)) \X (0..(WORLD_HEIGHT - 1)) \X (0..(CHUNK_SIZE - 1))

AddressCoords == AddressXs \X AddressYs \X AddressZs

\* What a caller sees of a chunk after set_block: the length of the vector,
\* what get_block returns at (x, y, z), and the coordinates of AddressCoords
\* at which get_block does not return what it returned before
SetThenGet(before, after, x, y, z) ==
    [len |-> Cardinality(DOMAIN after.blocks),
     get |-> ChunkGetBlock(after, x, y, z),
     changed |-> {c \in AddressCoords :
                     ChunkGetBlock(after, c[1], c[2], c[3])
                     # ChunkGetBlock(before, c[1], c[2], c[3])}]

CalcSetThenGet(x, y, z, block) ==
    /\ calc = NoCalc
    /\ \E after \in {ChunkSetBlock(AddressChunk, x, y, z, block)} :
          calc' = [fn |-> "set_then_get", in |-> <<x, y, z, block>>,
                   out |-> [index |-> BlockIndex(x, y, z),
                            seen |-> SetThenGet(AddressChunk, after, x, y, z)]]
    /\ UNCHANGED <<chunks, dirty_chunks, seed, world_dir, files, meta, last, chunk_meshes>>

\* The fill and the ore pass at one depth of a column, for the heights the
\* clamp allows (1..255), noise values around the four thresholds and
\* depths around the ends of the bands
ColumnHeights == {1, 2, 3, 4, 20, 64, 65, 90, 91, 130, 254, 255}
OreNoises == {-1000, 0, 600, 601, 700, 701, 750, 751, 800, 801, 1000}
ColumnYs == {0, 1, 2, 15, 16, 17, 19, 20, 31, 32, 62, 63, 64, 89, 90, 127, 128, 254, 255}

CalcColumn(height, ore_noise, y) ==
    /\ calc = NoCalc
    /\ calc' = [fn |-> "column", in |-> <<height, ore_noise, y>>,
                out |-> [fill |-> ColumnBlock(height, y),
                         ore |-> OreBlock(ore_noise, y),
                         block |-> ColumnAfterOres(height, ore_noise, y)]]
    /\ UNCHANGED <<chunks, dirty_chunks, seed, world_dir, files, meta, last, chunk_meshes>>

\* The world coordinate of a column of a chunk, for chunk coordinates at
\* the ends of i32, around the ends of the range in which chunk_x * 16 is
\* an i32, and around 0
OriginChunks ==
    {I32_MIN, -(I32_MAX \div CHUNK_SIZE) - 2, -(I32_MAX \div CHUNK_SIZE) - 1,
     -MaxCoord, -1, 0, 1, MaxCoord,
     I32_MAX \div CHUNK_SIZE, I32_MAX \div CHUNK_SIZE + 1, I32_MAX}

CalcColumnWorldCoord(chunk_x, x, build) ==
    /\ calc = NoCalc
    /\ calc' = [fn |-> "column_world_coord", in |-> <<chunk_x, x, build>>,
                out |-> ColumnWorldCoord(chunk_x, x, build)]
    /\ UNCHANGED <<chunks, dirty_chunks, seed, world_dir, files, meta, last, chunk_meshes>>

\* The height of a column for the values of its three noise series
HeightNoises == {-MaxNoise, 0, 250, 500, 750, 1000, MaxNoise}

CalcColumnHeight(base, hill, valley) ==
    /\ calc = NoCalc
    /\ calc' = [fn |-> "column_height", in |-> <<base, hill, valley>>,
                out |-> ColumnHeight(base, hill, valley)]
    /\ UNCHANGED <<chunks, dirty_chunks, seed, world_dir, files, meta, last, chunk_meshes>>

\* generate_chunk for a seed and a chunk coordinate
CalcGenerateChunk(s, chunk_x, chunk_z) ==
    /\ calc = NoCalc
    /\ calc' = [fn |-> "generate_chunk", in |-> <<s, chunk_x, chunk_z>>,
                out |-> GenerateChunk(s, chunk_x, chunk_z)]
    /\ UNCHANGED <<chunks, dirty_chunks, seed, world_dir, files, meta, last, chunk_meshes>>

NextCalc ==
    \/ \E coord \in CoordInputs : CalcSplitWorldCoord(coord)
    \/ \E height \in ColumnHeights, ore_noise \in OreNoises, y \in ColumnYs :
          CalcColumn(height, ore_noise, y)
    \/ \E chunk_x \in OriginChunks, x \in {0, CHUNK_SIZE - 1}, build \in Builds :
          CalcColumnWorldCoord(chunk_x, x, build)
    \/ \E base \in HeightNoises, hill \in HeightNoises, valley \in HeightNoises :
          CalcColumnHeight(base, hill, valley)
    \/ \E s \in Seeds \cup {WorldSeed}, c \in Coords : CalcGenerateChunk(s, c[1], c[2])
    \/ \E x \in BoundsXs, y \in BoundsYs, z \in BoundsZs : CalcChunkBounds(x, y, z)
    \/ \E id \in FromIdInputs : CalcFromId(id)
    \/ \E x \in AddressXs, y \in AddressYs, z \in AddressZs : CalcSetThenGet(x, y, z, Chest)
    \/ \E chunk \in RoundTripChunks : CalcRoundTrip(chunk)

SpecCalc == Init /\ [][NextCalc]_vars

---------------------------------------------------------------------------
(* SpecGame: the World as the running game drives it (main.rs): the world   *)
(* list's Play, the frame update, breaking and placing a block, Save & Quit *)
(* and closing the window.  These are all the calls the game makes on its   *)
(* World; the event loop keeps running its handlers until the window is     *)
(* closed.                                                                  *)

Exited == last.op = "close_requested"
Playing == world_dir = "Some" /\ last.op \notin {"save_and_quit", "close_requested"}

\* BlockType::hardness is negative (main.rs break_block refuses the block)
IsUnbreakable(block) == block = Bedrock

\* The positions the player's ray picks and the blocks of the hotbar
GamePositions == {<<0, 255, 0>>, <<15, 255, 0>>, <<0, 0, 0>>}
HotbarBlocks == {Stone, Water}

\* What get_block_at returns for a position (in range) in this state
BlockAt(w) ==
    LET sx == SplitWorldCoord(w[1])
        sz == SplitWorldCoord(w[3])
        post == GetChunkPost(chunks, dirty_chunks, seed, world_dir, files, sx.chunk, sz.chunk)
    IN  ChunkGetBlock(post.chunks[<<sx.chunk, sz.chunk>>], sx.local, w[2], sz.local)

\* Renderer::invalidate_chunk
InvalidateChunk(meshes, chunk_x, chunk_z) == meshes \ {<<chunk_x, chunk_z>>}

\* Mutant of invalidate_chunk_and_neighbors: the edited chunk alone.
InvalidateChunkOnly(meshes, chunk_x, chunk_z, world_pos) ==
    InvalidateChunk(meshes, chunk_x, chunk_z)

\* App::invalidate_chunk_and_neighbors (the renderer exists while playing)
InvalidateChunkAndNeighbors(meshes, chunk_x, chunk_z, world_pos) ==
    LET local_x == RemEuclid(world_pos[1], CHUNK_SIZE)
        local_z == RemEuclid(world_pos[3], CHUNK_SIZE)
        own == InvalidateChunk(meshes, chunk_x, chunk_z)
        west == IF local_x = 0 THEN InvalidateChunk(own, chunk_x - 1, chunk_z) ELSE own
        east == IF local_x = CHUNK_SIZE - 1
                THEN InvalidateChunk(west, chunk_x + 1, chunk_z) ELSE west
        south == IF local_z = 0 THEN InvalidateChunk(east, chunk_x, chunk_z - 1) ELSE east
    IN  IF local_z = CHUNK_SIZE - 1 THEN InvalidateChunk(south, chunk_x, chunk_z + 1) ELSE south

\* The `if let Some((chunk_x, chunk_z))` of break_block and place_block on
\* the result ret of set_block_at at world_pos
InvalidateAfterEdit(meshes, ret, world_pos) ==
    IF ret = <<>> THEN meshes
    ELSE InvalidateChunkAndNeighbors(meshes, ret[1], ret[2], world_pos)

\* renderer.generate_chunk_mesh(chunk), called by App::update: the mesh of
\* the chunk is built and cached under the chunk's own coordinates
GenerateChunkMesh(meshes, chunk) == meshes \cup {<<chunk.x, chunk.z>>}

\* i32::abs
Abs(a) == IF a < 0 THEN -a ELSE a

\* Renderer::update_chunks: the meshes out of the render distance are dropped
UpdateChunks(meshes, camera_chunk_x, camera_chunk_z, render_distance) ==
    {k \in meshes : /\ Abs(k[1] - camera_chunk_x) <= render_distance
                    /\ Abs(k[2] - camera_chunk_z) <= render_distance}

\* The world list's Play: World::new(Some(path), None)
Play(random) ==
    /\ ~Exited /\ ~Playing
    /\ New("Some", <<>>, random, "ok")
    /\ UNCHANGED chunk_meshes

\* The coordinates the two loops of App::update visit, in their order: x
\* outside, z inside, both over player_chunk_x - render_distance ..=
\* player_chunk_x + render_distance
LoadOrder(player_chunk_x, player_chunk_z, render_distance) ==
    LET side == 2 * render_distance + 1
    IN  [i \in 1..(side * side) |->
            <<player_chunk_x - render_distance + ((i - 1) \div side),
              player_chunk_x - render_distance + ((i - 1) % side)>>]

\* One pass of the body of the loops of App::update, for the chunk at key:
\* get_chunk, then generate_chunk_mesh.  world is the chunk map, the dirty
\* set and the meshes before it.  (The singleton sets here and below bind an
\* intermediate value, so that it is computed once.)
LoadStep(world, key) ==
    CHOOSE next \in
        {[chunks |-> post.chunks, dirty |-> post.dirty,
          meshes |-> GenerateChunkMesh(world.meshes, post.chunks[key])] :
            post \in {GetChunkPost(world.chunks, world.dirty, seed, world_dir, files,
                                   key[1], key[2])}} : TRUE

\* The loops of App::update from position i of the coordinates they visit
RECURSIVE LoadAround(_, _, _)
LoadAround(visit, i, world) ==
    IF i > Len(visit)
    THEN world
    ELSE CHOOSE done \in
            {LoadAround(visit, i + 1, next) : next \in {LoadStep(world, visit[i])}} : TRUE

\* App::update while playing, the camera being in chunk (player_chunk_x,
\* player_chunk_z): the chunks around the player are loaded and meshed,
\* then update_chunks
Update(player_chunk_x, player_chunk_z) ==
    /\ Playing
    /\ \E post \in {LoadAround(LoadOrder(player_chunk_x, player_chunk_z, RenderDistance), 1,
                               [chunks |-> chunks, dirty |-> dirty_chunks,
                                meshes |-> chunk_meshes])} :
          /\ chunks' = post.chunks
          /\ dirty_chunks' = post.dirty
          /\ chunk_meshes' = UpdateChunks(post.meshes, player_chunk_x, player_chunk_z,
                                          RenderDistance)
          /\ last' = Op("update", <<player_chunk_x, player_chunk_z>>, <<>>, "", {})
    /\ UNCHANGED <<seed, world_dir, files, meta, calc>>

\* App::break_block: the ray hit a solid block at w; get_block_at, then
\* set_block_at(.., Air) unless the block is unbreakable, then the meshes
\* around the edit are invalidated
BreakBlock(w) ==
    /\ Playing /\ InRangeWorldY(w[2])
    /\ IsSolid(BlockAt(w))
    /\ IF IsUnbreakable(BlockAt(w))
       THEN GetBlockAt(w[1], w[2], w[3]) /\ UNCHANGED chunk_meshes
       ELSE /\ SetBlockAt(w[1], w[2], w[3], Air)
            /\ chunk_meshes' = InvalidateAfterEdit(chunk_meshes, last'.ret, w)

\* App::place_block: the ray found the place w before the block it hit;
\* get_block_at, then set_block_at(.., the hotbar's block) unless the place
\* is taken, then the meshes around the edit are invalidated
PlaceBlock(w, block) ==
    /\ Playing /\ InRangeWorldY(w[2])
    /\ IF IsSolid(BlockAt(w))
       THEN GetBlockAt(w[1], w[2], w[3]) /\ UNCHANGED chunk_meshes
       ELSE /\ SetBlockAt(w[1], w[2], w[3], block)
            /\ chunk_meshes' = InvalidateAfterEdit(chunk_meshes, last'.ret, w)

\* The pause menu's Save & Quit: save_meta, back to the main menu
SaveAndQuit ==
    /\ Playing
    /\ meta' = SaveMetaPost(world_dir, meta, seed, "ok")
    /\ last' = Op("save_and_quit", <<>>, <<>>, "", {})
    /\ UNCHANGED <<chunks, dirty_chunks, seed, world_dir, files, calc, chunk_meshes>>

\* WindowEvent::CloseRequested: save_meta, then the event loop exits
CloseRequested ==
    /\ ~Exited
    /\ meta' = SaveMetaPost(world_dir, meta, seed, "ok")
    /\ last' = Op("close_requested", <<>>, <<>>, "", {})
    /\ UNCHANGED <<chunks, dirty_chunks, seed, world_dir, files, calc, chunk_meshes>>

NextGame ==
    \/ \E random \in Seeds : Play(random)
    \/ \E p \in PlayerChunks : Update(p[1], p[2])
    \/ \E w \in GamePositions : BreakBlock(w)
    \/ \E w \in GamePositions, block \in HotbarBlocks : PlaceBlock(w, block)
    \/ SaveAndQuit
    \/ CloseRequested

SpecGame == Init /\ [][NextGame]_vars /\ WF_vars(NextGame)

---------------------------------------------------------------------------
(* SpecMesh: build_chunk_mesh, evaluated once on a chunk with all of its    *)
(* 16 x 256 x 16 voxels: Stone and Water at the given places, Air elsewhere *)

MeshChunk(stone, water) ==
    [x |-> 0, z |-> 0,
     blocks |-> [i \in 0..(CHUNK_SIZE * WORLD_HEIGHT * CHUNK_SIZE - 1) |->
                    IF i \in {BlockIndex(c[1], c[2], c[3]) : c \in stone} THEN Stone
                    ELSE IF i \in {BlockIndex(c[1], c[2], c[3]) : c \in water} THEN Water
                    ELSE Air]]

\* A voxel of the interior with its six neighbours, and two corners of the
\* chunk
MeshCentre == <<8, 100, 8>>
MeshCross ==
    {MeshCentre, <<8, 101, 8>>, <<8, 99, 8>>, <<8, 100, 9>>, <<8, 100, 7>>,
     <<9, 100, 8>>, <<7, 100, 8>>}
MeshCorners == {<<0, 0, 0>>, <<CHUNK_SIZE - 1, WORLD_HEIGHT - 1, CHUNK_SIZE - 1>>}

MeshInputs ==
    {[stone |-> st, water |-> {}] : st \in SUBSET MeshCross}
    \cup {[stone |-> {c}, water |-> {}] : c \in MeshCorners}
    \cup {[stone |-> {MeshCentre}, water |-> {<<8, 101, 8>>}],
          [stone |-> {}, water |-> {MeshCentre}]}

CalcBuildChunkMesh(input) ==
    /\ calc = NoCalc
    /\ calc' = [fn |-> "build_chunk_mesh", in |-> input,
                out |-> BuildChunkMesh(MeshChunk(input.stone, input.water))]
    /\ UNCHANGED <<chunks, dirty_chunks, seed, world_dir, files, meta, last, chunk_meshes>>

\* emit_face for one face, or for two faces in turn, into empty vectors:
\* the first a face of MeshCentre, the second a face of the voxel at the
\* chunk's origin
EmitInputs ==
    {<<<<f, MeshCentre>>>> : f \in BlockFaces}
    \cup {<<<<f, MeshCentre>>, <<g, <<0, 0, 0>>>>>> : <<f, g>> \in BlockFaces \X BlockFaces}

RECURSIVE EmitFaces(_, _, _, _)
EmitFaces(emitted, i, vertices, indices) ==
    IF i > Len(emitted)
    THEN [vertices |-> vertices, indices |-> indices]
    ELSE LET mesh == EmitFace(emitted[i][1], emitted[i][2], vertices, indices)
         IN  EmitFaces(emitted, i + 1, mesh.vertices, mesh.indices)

CalcEmitFace(emitted) ==
    /\ calc = NoCalc
    /\ calc' = [fn |-> "emit_face", in |-> emitted,
                out |-> EmitFaces(emitted, 1, <<>>, <<>>)]
    /\ UNCHANGED <<chunks, dirty_chunks, seed, world_dir, files, meta, last, chunk_meshes>>

NextMesh ==
    \/ \E input \in MeshInputs : CalcBuildChunkMesh(input)
    \/ \E emitted \in EmitInputs : CalcEmitFace(emitted)

SpecMesh == Init /\ [][NextMesh]_vars

---------------------------------------------------------------------------
(* Properties *)

InRangeY(y) == y >= 0 /\ y < WORLD_HEIGHT

\* The chunk owning a world position and the position's index in it, by
\* floor division and its remainder.
OwnerOf(args) == <<args[1] \div CHUNK_SIZE, args[3] \div CHUNK_SIZE>>
IndexOf(args) == BlockIndex(args[1] % CHUNK_SIZE, args[2], args[3] % CHUNK_SIZE)

\* What the storage of this world holds for a coordinate
StoredChunk(key) == LoadChunkFromDisk(world_dir, files, key[1], key[2])

\* A chunk that is not resident and that storage cannot supply
MustGenerate(key) == key \notin DOMAIN chunks /\ ~StoredChunk(key).some

\* The block now at a position: that of the resident chunk, else of the
\* stored chunk, else of the generated one.
CurrentBlock(args) ==
    LET key == OwnerOf(args)
    IN  IF key \in DOMAIN chunks THEN chunks[key].blocks[IndexOf(args)]
        ELSE IF StoredChunk(key).some THEN StoredChunk(key).val.blocks[IndexOf(args)]
        ELSE GenerateChunk(seed, key[1], key[2]).blocks[IndexOf(args)]

IsSetBlockAt == last'.op = "set_block_at" /\ InRangeY(last'.args[2])

\* C1 as claimed: set_block_at with the block already there leaves the dirty
\* set as it was, also when the owning chunk was not resident; with another
\* block the owning chunk is in the dirty set afterwards.
C1_DirtyTrackingAsClaimed ==
    [][IsSetBlockAt =>
         IF last'.args[4] = CurrentBlock(last'.args)
         THEN dirty_chunks' = dirty_chunks
         ELSE OwnerOf(last'.args) \in dirty_chunks']_vars

\* C1 (amended): set_block_at with the block already there adds nothing to
\* the dirty set but the owning chunk when the call had to generate it (the
\* chunk was not resident and storage could not supply it); with another
\* block the owning chunk is in the dirty set afterwards.
C1_DirtyTracking ==
    [][IsSetBlockAt =>
         IF last'.args[4] = CurrentBlock(last'.args)
         THEN dirty_chunks' = dirty_chunks \cup
                 (IF MustGenerate(OwnerOf(last'.args)) THEN {OwnerOf(last'.args)} ELSE {})
         ELSE OwnerOf(last'.args) \in dirty_chunks']_vars

\* C1 witness: set_block_at wrote the block that a chunk loaded by this very
\* call already held, and the chunk is not dirty.
C1_Witness ==
    /\ last.op = "set_block_at" /\ InRangeY(last.args[2])
    /\ last.how = "loaded" /\ last.ret = <<>>
    /\ OwnerOf(last.args) \in DOMAIN chunks \ dirty_chunks

\* C2 as claimed: with or without a storage root, a resident chunk that is
\* not dirty has the content stored for its coordinate.
C2_DirtyInvariantAsClaimed ==
    \A key \in DOMAIN chunks \ dirty_chunks :
        StoredChunk(key).some /\ StoredChunk(key).val.blocks = chunks[key].blocks

\* C2 (amended): in a world with a storage root, a resident chunk that is
\* not dirty has the content stored for its coordinate (so a chunk whose
\* content differs from storage is dirty).
C2_DirtyInvariant ==
    world_dir = "Some" =>
        \A key \in DOMAIN chunks \ dirty_chunks :
            StoredChunk(key).some /\ StoredChunk(key).val.blocks = chunks[key].blocks

\* C2 witness: an edited chunk that was saved and is clean, beside a dirty one
C2_Witness ==
    /\ world_dir = "Some"
    /\ \E k1, k2 \in DOMAIN chunks :
          /\ k1 \notin dirty_chunks /\ k2 \in dirty_chunks
          /\ \E i \in Voxels : chunks[k1].blocks[i] # GenerateChunk(seed, k1[1], k1[2]).blocks[i]

IsSaveDirtyChunks == last'.op = "save_dirty_chunks"

\* What save_dirty_chunks is claimed to do to the files and the dirty set
SaveDirtyChunksEffect ==
    /\ dirty_chunks' = last'.failed
    /\ \A key \in dirty_chunks \ last'.failed : files'[key] = Serialize(chunks[key])
    /\ \A key \in DOMAIN files \ dirty_chunks : files'[key] = files[key]
    /\ chunks' = chunks

\* C3 as claimed: save_dirty_chunks leaves dirty exactly the coordinates
\* whose write failed and has written every other drained chunk to its own
\* file; no coordinate leaves the dirty set of a world without its chunk
\* having been written.
C3_SaveDirtyChunksAsClaimed ==
    [][/\ IsSaveDirtyChunks => SaveDirtyChunksEffect
       /\ last'.op # "new" =>
            \A key \in dirty_chunks \ dirty_chunks' : files'[key] = Serialize(chunks[key])]_vars

\* C3 (amended): the same in a world with a storage root; without one the
\* call empties the dirty set and writes nothing.
C3_SaveDirtyChunks ==
    [][/\ (IsSaveDirtyChunks /\ world_dir = "Some") => SaveDirtyChunksEffect
       /\ (IsSaveDirtyChunks /\ world_dir = "None") =>
            dirty_chunks' = {} /\ files' = files /\ chunks' = chunks
       /\ (last'.op # "new" /\ world_dir = "Some") =>
            \A key \in dirty_chunks \ dirty_chunks' : files'[key] = Serialize(chunks[key])]_vars

\* C3 witness: a call that drained two coordinates, one of whose writes
\* failed: that one is dirty again, the other is written.
C3_Witness ==
    /\ last.op = "save_dirty_chunks" /\ world_dir = "Some"
    /\ Len(last.args) = 2 /\ Cardinality(last.failed) = 1
    /\ dirty_chunks = last.failed
    /\ \E key \in DOMAIN chunks \ dirty_chunks : files[key] = Serialize(chunks[key])

\* The coordinate a get_chunk / get_chunk_mut was called with
CalledKey == <<last'.args[1], last'.args[2]>>

\* chs with the chunk c under key
WithChunk(chs, key, c) == [k \in DOMAIN chs \cup {key} |-> IF k = key THEN c ELSE chs[k]]

\* C4: get_chunk of a coordinate that is not resident caches the stored
\* chunk and leaves the dirty set alone when storage supplies one, and
\* otherwise caches the generated chunk and marks it dirty; a missing file
\* and a file that does not decode give the same chunk map and dirty set.
C4_LoadOrGenerate ==
    /\ [](\A key \in Coords \ DOMAIN chunks :
            GetChunkPost(chunks, dirty_chunks, seed, world_dir,
                         [files EXCEPT ![key] = NoFile], key[1], key[2])
            = GetChunkPost(chunks, dirty_chunks, seed, world_dir,
                           [files EXCEPT ![key] = GarbageFile], key[1], key[2]))
    /\ [][(last'.op = "get_chunk" /\ CalledKey \notin DOMAIN chunks) =>
            IF world_dir = "Some" /\ files[CalledKey].kind = "chunk"
            THEN /\ chunks' = WithChunk(chunks, CalledKey, Deserialize(files[CalledKey]).val)
                 /\ dirty_chunks' = dirty_chunks
            ELSE /\ chunks' = WithChunk(chunks, CalledKey,
                                        GenerateChunk(seed, CalledKey[1], CalledKey[2]))
                 /\ dirty_chunks' = dirty_chunks \cup {CalledKey}]_vars

\* C4 witness: get_chunk met a file that does not decode, and generated
C4_Witness ==
    /\ last.op = "get_chunk" /\ last.how = "generated"
    /\ world_dir = "Some" /\ files[<<last.args[1], last.args[2]>>].kind = "garbage"
    /\ <<last.args[1], last.args[2]>> \in dirty_chunks

\* C5: get_chunk and get_chunk_mut of a resident coordinate change neither
\* the chunk map nor the dirty set nor storage: nothing is loaded or
\* generated again.
C5_GetChunkIdempotent ==
    [][(last'.op \in {"get_chunk", "get_chunk_mut"} /\ CalledKey \in DOMAIN chunks) =>
         /\ last'.how = "cached"
         /\ UNCHANGED <<chunks, dirty_chunks, files, meta, seed, world_dir>>]_vars

\* C5 witness: get_chunk_mut returned a resident chunk that carries an edit
\* found neither in the generated chunk nor in storage.
C5_Witness ==
    /\ last.op = "get_chunk_mut" /\ last.how = "cached"
    /\ LET key == <<last.args[1], last.args[2]>>
       IN  /\ key \in DOMAIN chunks
           /\ chunks[key] # GenerateChunk(seed, key[1], key[2])
           /\ world_dir = "Some" /\ files[key].kind = "chunk"
           /\ chunks[key] # Deserialize(files[key]).val

\* C6: get_block_at and set_block_at with a height outside [0, 256) return
\* Air and None and change neither the chunk map nor the dirty set nor
\* storage.
C6_OutOfRangeHeight ==
    [][(last'.op \in {"get_block_at", "set_block_at"} /\ ~InRangeY(last'.args[2])) =>
         /\ last'.ret = (IF last'.op = "get_block_at" THEN <<Air>> ELSE <<>>)
         /\ UNCHANGED <<chunks, dirty_chunks, files, meta, seed, world_dir>>]_vars

\* C6 witness: get_block_at below the world returned Air and the owning
\* chunk is still not resident.
C6_Witness ==
    /\ last.op = "get_block_at" /\ last.args[2] < 0 /\ last.ret = <<Air>>
    /\ OwnerOf(last.args) \notin DOMAIN chunks

\* C7: split_world_coord(w) is (floor(w / 16), w - 16 * floor(w / 16)): the
\* local part is in [0, 16) and chunk * 16 + local = w, also for w < 0.
C7_SplitWorldCoord ==
    calc.fn = "split_world_coord" =>
        /\ calc.out.chunk = calc.in \div 16
        /\ calc.out.local >= 0 /\ calc.out.local < 16
        /\ calc.out.chunk * 16 + calc.out.local = calc.in
        /\ (calc.in = -1 => calc.out = [chunk |-> -1, local |-> 15])

\* C7 witness: the mapping of -1 was evaluated, to chunk -1 and local 15
C7_Witness ==
    /\ calc.fn = "split_world_coord" /\ calc.in = -1
    /\ calc.out.chunk = -1 /\ calc.out.local = 15

\* C8: after World::new with a storage root world_meta.json holds the
\* world's seed; opening the storage root again yields the same seed; no
\* other operation changes the seed or the persisted seed.
C8_SeedInvariant ==
    /\ []((last.op = "new" /\ world_dir = "Some") => meta = JsonMeta(seed))
    /\ [][(last'.op = "new" /\ world_dir = "Some" /\ world_dir' = "Some") => seed' = seed]_vars
    /\ [][last'.op # "new" => (seed' = seed /\ meta'.seed = meta.seed)]_vars

\* C9: a chunk saved to a storage root and loaded from its coordinate comes
\* back with the same coordinates and the same blocks.
C9_RoundTrip ==
    calc.fn = "round_trip" => (calc.out.some /\ calc.out.val = calc.in)

\* C9 witness: a chunk with Bedrock and a Chest came back from storage
C9_Witness ==
    /\ calc.fn = "round_trip" /\ calc.out.some
    /\ calc.in.x = -1
    /\ calc.out.val.blocks[BlockIndex(0, 0, 0)] = Bedrock
    /\ calc.out.val.blocks[BlockIndex(15, 255, 0)] = Chest

\* C10: a chunk file holds, for each voxel, the discriminant of its block
\* (the integer the file holds is that of the block it decodes to).
C10_StableIdentifiers ==
    \A p \in Coords :
        files[p].kind = "chunk" =>
            \A i \in DOMAIN files[p].data :
                files[p].data[i] = Deserialize(files[p]).val.blocks[i]

\* A chunk file in which some voxel holds an integer that names no block,
\* and what it would decode to with those voxels read as Air
HasUnknownId(file) ==
    /\ file.kind = "chunk"
    /\ \E i \in DOMAIN file.data : ~VariantFromIndex(file.data[i]).some
DecodedOrAir(file) ==
    [i \in DOMAIN file.data |->
        IF VariantFromIndex(file.data[i]).some
        THEN VariantFromIndex(file.data[i]).val
        ELSE Air]

\* C11: get_chunk of a coordinate whose file holds an unknown integer at
\* some voxels loads the chunk, with those voxels Air and every other voxel
\* as the file gives it; the chunk is not generated anew (and so not dirty).
C11_UnknownIdToAir ==
    [][(last'.op = "get_chunk" /\ CalledKey \notin DOMAIN chunks
            /\ world_dir = "Some" /\ HasUnknownId(files[CalledKey])) =>
         /\ last'.how = "loaded"
         /\ chunks'[CalledKey].blocks = DecodedOrAir(files[CalledKey])
         /\ dirty_chunks' = dirty_chunks]_vars

\* C12: from_id(b as u16) = b for every block b of the catalog (so `as u16`
\* is injective on the catalog); from_id of a u16 that is the discriminant of
\* no block is Air; from_id always returns a block.
C12_FromIdCodec ==
    calc.fn = "from_id" =>
        /\ calc.out \in BlockType
        /\ \A b \in BlockType : calc.in = AsU16(b) => calc.out = b
        /\ (\A b \in BlockType : calc.in # AsU16(b)) => calc.out = Air
        /\ \A i, j \in 1..Len(BlockTypeVariants) :
              AsU16(BlockTypeVariants[i]) = AsU16(BlockTypeVariants[j]) => i = j

\* C12 witness: from_id was evaluated on 22, the index but not the
\* discriminant of CoalOre, and gave Air.
C12_Witness ==
    /\ calc.fn = "from_id" /\ calc.in = VariantIndex(CoalOre)
    /\ calc.in \notin BlockType /\ calc.out = Air

\* C13: whatever a chunk file holds, no operation panics, and every resident
\* chunk has a voxel vector of full length (all the voxels the model
\* follows are there).
C13_NoPanicOnMalformedData ==
    /\ ~Panicked
    /\ \A key \in DOMAIN chunks : DOMAIN chunks[key].blocks = Voxels

\* C14: with x >= 16 or y >= 256 or z >= 16, get_block returns Air and
\* set_block leaves every voxel as it was; neither indexes outside the
\* vector, for any coordinates.
C14_ChunkBounds ==
    calc.fn = "chunk_bounds" =>
        /\ ~calc.out.panics
        /\ (calc.in[1] >= 16 \/ calc.in[2] >= 256 \/ calc.in[3] >= 16) =>
              (calc.out.get = Air /\ calc.out.set = BoundsChunk)
        /\ (calc.in[1] < 16 /\ calc.in[2] < 256 /\ calc.in[3] < 16) =>
              /\ BlockIndex(calc.in[1], calc.in[2], calc.in[3]) < 16 * 256 * 16
              /\ calc.out.get = Stone
              /\ calc.out.set.blocks[BlockIndex(calc.in[1], calc.in[2], calc.in[3])] = Chest

\* C14 witness: get_block and set_block were called one layer above the top
\* of the chunk; Air came back and nothing was written.
C14_Witness ==
    /\ calc.fn = "chunk_bounds" /\ calc.in = <<15, 256, 0>>
    /\ calc.out.get = Air /\ calc.out.set = BoundsChunk

\* C15: after the fill and the ore pass the block at y = 0 is Bedrock, for
\* every column height and ore noise, and in every column of the chunk
\* generated for any seed and coordinate.
C15_BedrockInvariant ==
    /\ (calc.fn = "column" /\ calc.in[3] = 0) => calc.out.block = Bedrock
    /\ calc.fn = "generate_chunk" =>
          \A x \in TrackedX, z \in TrackedZ : calc.out.blocks[BlockIndex(x, 0, z)] = Bedrock

\* C15 witness: the lowest block of a column of height 1 was evaluated with
\* the ore noise above every threshold, and is Bedrock.
C15_Witness ==
    /\ calc.fn = "column" /\ calc.in = <<1, 1000, 0>>
    /\ calc.out.block = Bedrock

\* The coordinate of the chunk an operation obtained
ObtainedKey ==
    IF last'.op \in {"get_chunk", "get_chunk_mut"} THEN CalledKey ELSE OwnerOf(last'.args)

\* The voxels set_block_at is called on in the model
EditedVoxels == {IndexOf(w) : w \in {v \in WorldPositions : InRangeY(v[2])}}

\* C16: what is generated for a chunk coordinate depends on the seed and the
\* coordinate alone.  Whatever came before (other chunks generated, edited
\* or saved, in any order, a world opened anew with the same seed), every
\* chunk that is resident or stored agrees, at each voxel no edit was made
\* on, with what generation gives for its coordinate now; and a chunk just
\* obtained by generation is the one generation gives.
C16_GenerationDeterminism ==
    /\ [](\A key \in Coords : \A i \in Voxels \ EditedVoxels :
            /\ key \in DOMAIN chunks =>
                  chunks[key].blocks[i] = GenerateChunk(seed, key[1], key[2]).blocks[i]
            /\ files[key].kind = "chunk" =>
                  Deserialize(files[key]).val.blocks[i]
                      = GenerateChunk(seed, key[1], key[2]).blocks[i])
    /\ [][(last'.how = "generated" /\ last'.op \in {"get_chunk", "get_chunk_mut", "get_block_at"}) =>
            chunks'[ObtainedKey] = GenerateChunk(seed, ObtainedKey[1], ObtainedKey[2])]_vars

\* C16 witness: a chunk was generated in a world whose other chunk had been
\* generated before it, edited and saved.
C16_Witness ==
    /\ last.op = "get_chunk" /\ last.how = "generated" /\ world_dir = "Some"
    /\ chunks[<<last.args[1], last.args[2]>>] = GenerateChunk(seed, last.args[1], last.args[2])
    /\ \E key \in DOMAIN chunks \ {<<last.args[1], last.args[2]>>} :
          /\ chunks[key] # GenerateChunk(seed, key[1], key[2])
          /\ files[key] = Serialize(chunks[key])

\* The place next to a voxel in the direction of a face
FaceNeighbour(c, face) ==
    CASE face = "Top" -> <<c[1], c[2] + 1, c[3]>>
      [] face = "Bottom" -> <<c[1], c[2] - 1, c[3]>>
      [] face = "North" -> <<c[1], c[2], c[3] + 1>>
      [] face = "South" -> <<c[1], c[2], c[3] - 1>>
      [] face = "East" -> <<c[1] + 1, c[2], c[3]>>
      [] face = "West" -> <<c[1] - 1, c[2], c[3]>>

\* C17: build_chunk_mesh emits the face of voxel v in direction d exactly
\* when v is solid and the place next to v in direction d is outside the
\* chunk or holds a block that is not solid, with 4 vertices and 6 indices
\* for each face: no face for a solid voxel whose six neighbours are solid,
\* 6 faces (24 vertices, 36 indices) for one solid voxel alone in the
\* interior, nothing for a chunk with no solid voxel.
C17_MeshFaceCulling ==
    calc.fn = "build_chunk_mesh" =>
        /\ calc.out.faces =
              {<<c[1], c[2], c[3], face>> : <<c, face>> \in
                  {cf \in calc.in.stone \X {"Top", "Bottom", "North", "South", "East", "West"} :
                      FaceNeighbour(cf[1], cf[2]) \notin calc.in.stone}}
        /\ calc.out.vertices = 4 * Cardinality(calc.out.faces)
        /\ calc.out.indices = 6 * Cardinality(calc.out.faces)
        /\ calc.in.stone = MeshCross =>
              \A f \in calc.out.faces : <<f[1], f[2], f[3]>> # MeshCentre
        /\ (calc.in.stone = {MeshCentre} /\ calc.in.water = {}) =>
              (Cardinality(calc.out.faces) = 6 /\ calc.out.vertices = 24 /\ calc.out.indices = 36)
        /\ calc.in.stone = {} =>
              (calc.out.faces = {} /\ calc.out.vertices = 0 /\ calc.out.indices = 0)

\* C17 witness: the mesh of a solid voxel with its six neighbours solid was
\* built: 30 faces, none of them of the voxel in the middle.
C17_Witness ==
    /\ calc.fn = "build_chunk_mesh" /\ calc.in.stone = MeshCross
    /\ Cardinality(calc.out.faces) = 30
    /\ \A f \in calc.out.faces : <<f[1], f[2], f[3]>> # MeshCentre

\* C18: in the ore pass the four ores have bands of their own, the rarest
\* first: diamond for noise above 0.8 at 1 < y < 20, else gold for noise
\* above 0.75 at y < 32, else iron for noise above 0.7 at y < 64, else coal
\* for noise above 0.6 at y < 128 (y >= 1 throughout).
C18_OreBands ==
    calc.fn = "column" =>
        LET n == calc.in[2]
            y == calc.in[3]
            diamond == n > 800 /\ y > 1 /\ y < 20
            gold == ~diamond /\ n > 750 /\ y > 0 /\ y < 32
            iron == ~diamond /\ ~gold /\ n > 700 /\ y > 0 /\ y < 64
            coal == ~diamond /\ ~gold /\ ~iron /\ n > 600 /\ y > 0 /\ y < 128
        IN  /\ diamond => calc.out.ore \in {DiamondOre, DeepslateDiamondOre}
            /\ gold => calc.out.ore \in {GoldOre, DeepslateGoldOre}
            /\ iron => calc.out.ore \in {IronOre, DeepslateIronOre}
            /\ coal => calc.out.ore \in {CoalOre, DeepslateCoalOre}

\* C19: in the running game every chunk that is dirty in a world with a
\* storage root is later written: a state follows in which its file holds
\* the chunk as it is in memory.
C19_EventualPersistence ==
    \A key \in Coords :
        (key \in dirty_chunks /\ world_dir = "Some")
            ~> (key \in DOMAIN chunks /\ files[key] = Serialize(chunks[key]))

\* The content a coordinate has before an operation obtains its chunk: that
\* of the resident chunk, else of the stored chunk, else of the generated one
ContentBefore(key) ==
    IF key \in DOMAIN chunks THEN chunks[key].blocks
    ELSE IF StoredChunk(key).some THEN StoredChunk(key).val.blocks
    ELSE GenerateChunk(seed, key[1], key[2]).blocks

\* C20: set_block_at with a height in range returns the coordinate of the
\* owning chunk when the block differs from the one there and None when it
\* does not; afterwards the position holds the block (get_block_at returns
\* it), and no other voxel of that chunk or of another resident chunk has
\* changed.
C20_SetBlockAtResult ==
    [][IsSetBlockAt =>
         LET key == OwnerOf(last'.args)
             idx == IndexOf(last'.args)
         IN  /\ last'.ret = (IF last'.args[4] # CurrentBlock(last'.args) THEN key ELSE <<>>)
             /\ DOMAIN chunks' = DOMAIN chunks \cup {key}
             /\ chunks'[key].blocks[idx] = last'.args[4]
             /\ \A i \in Voxels \ {idx} : chunks'[key].blocks[i] = ContentBefore(key)[i]
             /\ \A k \in DOMAIN chunks \ {key} : chunks'[k] = chunks[k]
             /\ files' = files]_vars

\* C20 witness: set_block_at changed a block of a resident chunk and returned
\* its coordinate, beside another resident chunk that carries an edit.
C20_Witness ==
    /\ last.op = "set_block_at" /\ last.how = "cached"
    /\ last.ret = OwnerOf(last.args)
    /\ chunks[OwnerOf(last.args)].blocks[IndexOf(last.args)] = last.args[4]
    /\ \E k \in DOMAIN chunks \ {OwnerOf(last.args)} :
          chunks[k] # GenerateChunk(seed, k[1], k[2])


---------------------------------------------------------------------------
\* C21 (height clamp range): for every value the three noise series return,
\* in the normalised range 0..1 and out of it, the height computed for a
\* column lies in 1..WORLD_HEIGHT - 1 = 255; for values of the normalised
\* range it lies in 25..140, so the clamp leaves it as computed.
C21_HeightClampRange ==
    calc.fn = "column_height" =>
        /\ calc.out >= 1 /\ calc.out <= WORLD_HEIGHT - 1
        /\ (\A i \in 1..3 : calc.in[i] >= 0 /\ calc.in[i] <= 1000) =>
              /\ calc.out >= 25 /\ calc.out <= 140
              /\ calc.out = (40000 + calc.in[1] * 80 + calc.in[2] * 20
                             - calc.in[3] * 15) \div 1000

\* The lowest column of the normalised range: the base and the hill series
\* at 0, the valley series at 1
C21_Witness ==
    /\ calc.fn = "column_height"
    /\ calc.in = <<0, 0, 1000>>
    /\ calc.out = 25


---------------------------------------------------------------------------
\* C22 (column fill rule): before ores, the block at depth y of a column of
\* height h is Bedrock at y = 0; otherwise Deepslate if y < h-3 and y < 16,
\* Stone if y < h-3 and y >= 16; Dirt if h-3 <= y < h-1; the surface block
\* if h-1 <= y < h (Stone if h > 90, Sand if h < 65, GrassBlock otherwise);
\* Water if h <= y < 63; otherwise Air, where h-3 and h-1 count as 0 when
\* negative.
C22_ColumnFillRule ==
    calc.fn = "column" =>
        LET h == calc.in[1]
            y == calc.in[3]
            fill == calc.out.fill
            h3 == IF h - 3 < 0 THEN 0 ELSE h - 3
            h1 == IF h - 1 < 0 THEN 0 ELSE h - 1
            surface == IF h > 90 THEN Stone ELSE IF h < 65 THEN Sand ELSE GrassBlock
        IN  /\ y = 0 => fill = Bedrock
            /\ (y > 0 /\ y < h3 /\ y < 16) => fill = Deepslate
            /\ (y > 0 /\ y < h3 /\ y >= 16) => fill = Stone
            /\ (y > 0 /\ h3 <= y /\ y < h1) => fill = Dirt
            /\ (y > 0 /\ h1 <= y /\ y < h) => fill = surface
            /\ (y > 0 /\ h <= y /\ y < 63) => fill = Water
            /\ (y > 0 /\ h <= y /\ y >= 63) => fill = Air

\* The soil under the stone surface of a column of height 91
C22_Witness ==
    /\ calc.fn = "column"
    /\ calc.in[1] = 91 /\ calc.in[3] = 89
    /\ calc.out.fill = Dirt


---------------------------------------------------------------------------
\* C23 (ore host positions): the ore pass changes the block of a column
\* only where the fill put Stone or Deepslate under the soil layer
\* (y < h-3); it never replaces Bedrock, the soil layer, the surface block,
\* Water or Air.
C23_OreHostPositions ==
    calc.fn = "column" =>
        LET h == calc.in[1]
            y == calc.in[3]
        IN  calc.out.block # calc.out.fill =>
                /\ calc.out.fill \in {Stone, Deepslate}
                /\ y < h - 3


---------------------------------------------------------------------------
Cross(a, b) ==
    <<a[2] * b[3] - a[3] * b[2], a[3] * b[1] - a[1] * b[3], a[1] * b[2] - a[2] * b[1]>>

Minus(a, b) == <<a[1] - b[1], a[2] - b[2], a[3] - b[3]>>

\* C24 (mesh face geometry): for each of the six faces, the neighbour
\* build_chunk_mesh tests is the voxel offset by the face's normal; the four
\* corners emit_face pushes are corners of the voxel's cube on the side
\* towards that neighbour and carry the face's normal; the two triangles
\* are (s, s+1, s+2) and (s, s+2, s+3) for the index s of the face's first
\* vertex, and for both (v1 - v0) x (v2 - v0) is the outward normal; every
\* index is smaller than the number of vertices.
C24_MeshFaceGeometry ==
    /\ (calc.fn = "build_chunk_mesh" /\ MeshCentre \in calc.in.stone) =>
          \A face \in BlockFaces :
              <<MeshCentre[1], MeshCentre[2], MeshCentre[3], face>> \in calc.out.faces
              <=> <<MeshCentre[1] + FaceNormal(face)[1],
                    MeshCentre[2] + FaceNormal(face)[2],
                    MeshCentre[3] + FaceNormal(face)[3]>> \notin calc.in.stone
    /\ calc.fn = "emit_face" =>
          LET vertices == calc.out.vertices
              indices == calc.out.indices
          IN  /\ Len(vertices) = 4 * Len(calc.in)
              /\ Len(indices) = 6 * Len(calc.in)
              /\ \A i \in 1..Len(indices) : indices[i] >= 0 /\ indices[i] < Len(vertices)
              /\ \A k \in 1..Len(calc.in) :
                    LET face == calc.in[k][1]
                        base_pos == calc.in[k][2]
                        normal == FaceNormal(face)
                        s == 4 * (k - 1)
                        \* the vertex an index names (indices count from 0)
                        v(j) == vertices[indices[6 * (k - 1) + j] + 1].position
                    IN  /\ \A c \in 1..4 :
                              LET offset == Minus(vertices[s + c].position, base_pos)
                              IN  /\ \A a \in 1..3 : offset[a] \in {0, 1}
                                  /\ \A a \in 1..3 :
                                        /\ normal[a] = 1 => offset[a] = 1
                                        /\ normal[a] = -1 => offset[a] = 0
                                  /\ vertices[s + c].normal = normal
                        /\ Cardinality({vertices[s + c].position : c \in 1..4}) = 4
                        /\ <<indices[6 * (k - 1) + 1], indices[6 * (k - 1) + 2],
                             indices[6 * (k - 1) + 3], indices[6 * (k - 1) + 4],
                             indices[6 * (k - 1) + 5], indices[6 * (k - 1) + 6]>>
                           = <<s, s + 1, s + 2, s, s + 2, s + 3>>
                        /\ Cross(Minus(v(2), v(1)), Minus(v(3), v(1))) = normal
                        /\ Cross(Minus(v(5), v(4)), Minus(v(6), v(4))) = normal

\* Two faces were emitted in turn: the second one's indices start at 4
C24_Witness ==
    /\ calc.fn = "emit_face" /\ Len(calc.in) = 2
    /\ calc.in[1][1] = "West" /\ calc.in[2][1] = "Top"
    /\ Len(calc.out.vertices) = 8
    /\ calc.out.indices[7] = 4 /\ calc.out.indices[12] = 7


---------------------------------------------------------------------------
\* C25 (chunk addressing consistent): the index x + y*16 + z*16*256 of an
\* in-range coordinate lies inside the vector of 16*256*16 blocks and no
\* other in-range coordinate has the same index; after set_block(x, y, z, b)
\* get_block(x, y, z) returns b and get_block returns what it did before at
\* every other in-range coordinate (those of AddressCoords are compared).
C25_ChunkAddressing ==
    calc.fn = "set_then_get" =>
        LET x == calc.in[1]
            y == calc.in[2]
            z == calc.in[3]
        IN  /\ calc.out.index = x + y * 16 + z * 16 * 256
            /\ calc.out.index >= 0 /\ calc.out.index < 16 * 256 * 16
            /\ \A c \in InRangeCoords :
                  BlockIndex(c[1], c[2], c[3]) = calc.out.index => c = <<x, y, z>>
            /\ calc.out.seen.len = 16 * 256 * 16
            /\ calc.out.seen.get = calc.in[4]
            /\ calc.out.seen.changed = {<<x, y, z>>}

\* The block at the far corner of the chunk was set and read back
C25_Witness ==
    /\ calc.fn = "set_then_get"
    /\ calc.in = <<CHUNK_SIZE - 1, WORLD_HEIGHT - 1, CHUNK_SIZE - 1, Chest>>
    /\ calc.out.index = CHUNK_SIZE * WORLD_HEIGHT * CHUNK_SIZE - 1
    /\ calc.out.seen.get = Chest
    /\ calc.out.seen.changed = {<<CHUNK_SIZE - 1, WORLD_HEIGHT - 1, CHUNK_SIZE - 1>>}


---------------------------------------------------------------------------
\* The chunks next to chunk `key` on the lateral sides on which world
\* position w lies on the chunk's boundary
BoundaryNeighbours(key, w) ==
    (IF w[1] % 16 = 0 THEN {<<key[1] - 1, key[2]>>} ELSE {})
    \cup (IF w[1] % 16 = 15 THEN {<<key[1] + 1, key[2]>>} ELSE {})
    \cup (IF w[3] % 16 = 0 THEN {<<key[1], key[2] - 1>>} ELSE {})
    \cup (IF w[3] % 16 = 15 THEN {<<key[1], key[2] + 1>>} ELSE {})

---------------------------------------------------------------------------
\* C27 (residency invariants): every dirty coordinate is a key of the map of
\* resident chunks, and no key of that map is lost by get_chunk,
\* get_chunk_mut, get_block_at, set_block_at or save_dirty_chunks.
C27_ResidencyInvariants ==
    /\ [](dirty_chunks \subseteq DOMAIN chunks)
    /\ [][last'.op \in {"get_chunk", "get_chunk_mut", "get_block_at", "set_block_at",
                        "save_dirty_chunks"} =>
             DOMAIN chunks \subseteq DOMAIN chunks']_vars

\* Both chunks are resident and a failed write has left one of them dirty
C27_Witness ==
    /\ last.op = "save_dirty_chunks"
    /\ DOMAIN chunks = Coords
    /\ dirty_chunks # {} /\ dirty_chunks # Coords


---------------------------------------------------------------------------
\* C28 (cache key matches chunk identity): every chunk resident under key
\* (cx, cz) has x = cx and z = cz, whether it was generated or loaded from
\* storage, so that the file save_chunk_to_disk writes for it is the file
\* of (cx, cz).
C28_KeyMatchesChunk ==
    \A key \in DOMAIN chunks :
        /\ chunks[key].x = key[1] /\ chunks[key].z = key[2]
        /\ ChunkPath(world_dir, chunks[key].x, chunks[key].z) =
              ChunkPath(world_dir, key[1], key[2])


---------------------------------------------------------------------------
\* C29 (no integer overflow in generation): for every i32 chunk coordinate
\* get_chunk accepts, chunk_x * 16 and chunk_x * 16 + x for a local x in
\* 0..15 stay within i32: nothing panics, and the world coordinate computed
\* for the column is that of column x of chunk chunk_x.
C29_NoOverflowInGeneration ==
    calc.fn = "column_world_coord" =>
        /\ ~calc.out.panics
        /\ SplitWorldCoord(calc.out.val) = [chunk |-> calc.in[1], local |-> calc.in[2]]


---------------------------------------------------------------------------
\* C30 (chunks around the player are loaded): after each update while
\* playing, with the player in chunk (px, pz) and render distance r, every
\* chunk (x, z) with |x - px| <= r and |z - pz| <= r is resident.
C30_ChunksAroundPlayerLoaded ==
    last.op = "update" =>
        \A x \in (last.args[1] - RenderDistance)..(last.args[1] + RenderDistance),
           z \in (last.args[2] - RenderDistance)..(last.args[2] + RenderDistance) :
            <<x, z>> \in DOMAIN chunks

============================================================================
